---------------------------- MODULE Spec2Model ----------------------------
(***************************************************************************)
(* libfsp: the stream buffer of fsp.c (fsp_create, fsp_buffer_append,      *)
(* fsp_read_input, fsp_buffer_compact, fsp_buffer_available,               *)
(* fsp_parse_chunk, user data) and the two-phase host loop of fsp_test.c   *)
(* (test_streaming_parser).                                                *)
(*                                                                         *)
(* Spec      any interleaving of the library calls on one context.         *)
(* SpecHost  the host loop of test_streaming_parser over every input and   *)
(*           chunk size within the bounds.                                 *)
(*                                                                         *)
(* size_t values are modelled as naturals: every payload handed to the     *)
(* library is a real array of `length` bytes, so no sum here approaches    *)
(* SIZE_MAX.                                                               *)
(***************************************************************************)
EXTENDS Integers, Sequences, FiniteSets, TLC

VARIABLES
  ctx,        \* the fsp_context (struct fsp_context_s)
  accepted,   \* history: every byte taken by a successful append, in order
  delivered,  \* history: every byte copied out by fsp_read_input, in order
  appended,   \* history: sum of the lengths of the successful appends
  last,       \* the most recent library call: its name, arguments and result
  input,      \* host: the whole input (test_streaming_parser's `input`)
  chunk_size, \* host: chunk_size argument
  pos,        \* host: pos
  final_drain,\* host: final_drain
  is_eof,     \* host: is_eof
  token,      \* host: the token the lexer returned last
  status,     \* host: status
  hpc,        \* host: position in test_streaming_parser
  yy_buf,     \* lexer: bytes pulled from the context and not yet tokenised
  pulled,     \* history: every byte the lexer pulled through its refill hook
  pushed,     \* parser: the tokens pushed before the end-of-input token
  eof_pushed, \* parser: number of end-of-input (token 0) pushes
  lex_calls   \* history: number of lexer invocations

ctx_vars  == <<ctx, accepted, delivered, appended, last>>
host_vars == <<input, chunk_size, pos, final_drain, is_eof, token, status,
               hpc, yy_buf, pulled, pushed, eof_pushed, lex_calls>>
vars      == <<ctx, accepted, delivered, appended, last,
               input, chunk_size, pos, final_drain, is_eof, token, status,
               hpc, yy_buf, pulled, pushed, eof_pushed, lex_calls>>

(***************************************************************************)
(* Bounds of the model.                                                    *)
(***************************************************************************)
\* FSP_DEFAULT_BUFFER_SIZE is a build-time setting (#ifndef, fsp.c:37-39);
\* the model is checked for a scaled-down build.
FSP_DEFAULT_BUFFER_SIZE == 2
\* MIN_BUFFER_FOR_LEX is the host's threshold (#define, fsp_test.c:198),
\* scaled down with the buffer.
MIN_BUFFER_FOR_LEX == 2
\* Longest payload of one append / parse_chunk call, and largest chunk_size.
MaxChunk == 5
\* Total number of bytes the producer of Spec ever offers.
MaxStream == 6
\* Largest max_size passed to fsp_read_input in Spec.
MaxRead == 2
\* Longest input of the host loop.
MaxInput == 4
\* max_size the lexer passes to its refill hook (YY_INPUT).
YY_READ_BUF_SIZE == 2
\* Width of size_t in bits, scaled down with the buffer.
SIZE_BITS == 4
\* Number of bytes appended to each context of SpecTwo.
TwoStream == 3
\* Width of int in bits, scaled down with size_t and narrower than it.
INT_BITS == 3

(***************************************************************************)
(* Values.                                                                 *)
(***************************************************************************)
\* Content of allocated memory that was never written (malloc, the tail
\* of a grown realloc).  Payload bytes are >= 1.
Uninit == 0
NULL == 0
\* A non-null user pointer.
SomePointer == 1

\* fsp_status (fsp.h:42-47)
FSP_STATUS_OK == 0
FSP_STATUS_NEED_DATA == 1
FSP_STATUS_ERROR == 2
FSP_STATUS_NO_MEMORY == 3

\* Largest value of the int that fsp_read_input returns.
INT_MAX == (2 ^ (INT_BITS - 1)) - 1

Min(a, b) == IF a < b THEN a ELSE b

\* size_t: unsigned arithmetic modulo 2^SIZE_BITS.
SIZE_MAX == (2 ^ SIZE_BITS) - 1
SizeT(x) == x % (SIZE_MAX + 1)

\* In the place of a return value: the call never returns.
Never == -2

\* (int)to_copy: the low INT_BITS bits of the value, read as a signed
\* number; a value above INT_MAX comes out negative or short.
SizeToInt(x) ==
  LET low == x % (2 ^ INT_BITS)
  IN IF low <= INT_MAX THEN low ELSE low - (2 ^ INT_BITS)

\* The bytes buf[from], ..., buf[from + n - 1] as a sequence.
Bytes(buf, from, n) == [i \in 1..n |-> buf[from + i - 1]]

(***************************************************************************)
(* libc on a buffer: a function from 0..capacity-1 to bytes.               *)
(***************************************************************************)
\* malloc(n): n bytes of indeterminate content.
Malloc(n) == [i \in 0..(n - 1) |-> Uninit]

\* memmove(buf + dst, buf + src, n) within one buffer.
Memmove(buf, dst, src, n) ==
  [i \in DOMAIN buf |->
     IF dst <= i /\ i < dst + n THEN buf[src + (i - dst)] ELSE buf[i]]

\* memcpy(buf + dst, data, n), data a sequence.
Memcpy(buf, dst, data, n) ==
  [i \in DOMAIN buf |->
     IF dst <= i /\ i < dst + n THEN data[i - dst + 1] ELSE buf[i]]

\* Realloc as malloc of a fresh block: the old content is not carried over.
ReallocFresh(buf, n) == [i \in 0..(n - 1) |-> Uninit]

\* realloc(buf, n) that succeeds: the old content up to the smaller size.
Realloc(buf, n) ==
  [i \in 0..(n - 1) |-> IF i \in DOMAIN buf THEN buf[i] ELSE Uninit]

(***************************************************************************)
(* fsp.c                                                                   *)
(***************************************************************************)
\* A context created with a buffer already holding the bytes malloc left
\* in it and no further chunk expected.
CreateNotEmpty ==
  [ stream_buffer        |-> Malloc(FSP_DEFAULT_BUFFER_SIZE),
    buffer_capacity      |-> FSP_DEFAULT_BUFFER_SIZE,
    data_length          |-> FSP_DEFAULT_BUFFER_SIZE,
    read_position        |-> 0,
    more_chunks_expected |-> 0,
    user_data            |-> NULL ]

\* fsp_create: the context after a successful creation.
fsp_create ==
  [ stream_buffer        |-> Malloc(FSP_DEFAULT_BUFFER_SIZE),
    buffer_capacity      |-> FSP_DEFAULT_BUFFER_SIZE,
    data_length          |-> 0,
    read_position        |-> 0,
    more_chunks_expected |-> 1,
    user_data            |-> NULL ]

\* The buffered length, read bytes included.
AvailableLength(c) == c.data_length

\* fsp_buffer_available on a non-null context.
fsp_buffer_available(c) == c.data_length - c.read_position

\* The unread region [read_position, data_length) as a sequence.
Unread(c) == Bytes(c.stream_buffer, c.read_position, fsp_buffer_available(c))

\* ToCopy without the comparison: max_size bytes whatever is available.
ToCopyMaxSize(available, max_size) == max_size

\* to_copy of fsp_read_input.
ToCopy(available, max_size) ==
  IF available < max_size THEN available ELSE max_size

\* fsp_read_input that tells "would block" from "true EOF": -1 when the
\* buffer is empty and no more chunks are expected.
ReadEofSentinel(c, ctx_null, buffer_null, max_size) ==
  IF ctx_null \/ buffer_null \/ max_size = 0
  THEN [ctx |-> c, out |-> << >>, ret |-> 0]
  ELSE LET available == c.data_length - c.read_position
       IN IF available = 0
          THEN [ctx |-> c, out |-> << >>,
                ret |-> IF c.more_chunks_expected # 0 THEN 0 ELSE -1]
          ELSE LET to_copy == ToCopy(available, max_size)
               IN [ctx |-> [c EXCEPT !.read_position = @ + to_copy],
                   out |-> Bytes(c.stream_buffer, c.read_position, to_copy),
                   ret |-> SizeToInt(to_copy)]

\* fsp_read_input(ctx, buffer, max_size): the context afterwards, the
\* bytes copied to the caller's buffer and the value returned.
fsp_read_input(c, ctx_null, buffer_null, max_size) ==
  IF ctx_null \/ buffer_null \/ max_size = 0
  THEN [ctx |-> c, out |-> << >>, ret |-> 0]
  ELSE LET available == c.data_length - c.read_position
       IN IF available = 0
          THEN [ctx |-> c, out |-> << >>, ret |-> 0]
          ELSE LET to_copy == ToCopy(available, max_size)
               IN [ctx |-> [c EXCEPT !.read_position = @ + to_copy],
                   out |-> Bytes(c.stream_buffer, c.read_position, to_copy),
                   ret |-> SizeToInt(to_copy)]

\* AppendCompact with the memmove left out: the indices are reset, the
\* bytes stay where they were.
AppendCompactNoMove(c) ==
  [c EXCEPT !.data_length   = c.data_length - c.read_position,
            !.read_position = 0]

\* AppendCompact that also doubles the buffer, whether or not the payload
\* fits after the compaction.
AppendCompactPreGrow(c) ==
  LET unread == c.data_length - c.read_position
  IN [c EXCEPT
        !.stream_buffer   =
           Realloc(IF unread > 0 THEN Memmove(@, 0, c.read_position, unread)
                   ELSE @, c.buffer_capacity * 2),
        !.buffer_capacity = @ * 2,
        !.data_length     = unread,
        !.read_position   = 0]

\* AppendCompact without `ctx->data_length = unread`: the bytes move and
\* the cursor is reset, the space is not reclaimed.
AppendCompactLengthKept(c) ==
  LET unread == c.data_length - c.read_position
  IN [c EXCEPT
        !.stream_buffer = IF unread > 0
                          THEN Memmove(@, 0, c.read_position, unread)
                          ELSE @,
        !.read_position = 0]

\* The compaction step inside fsp_buffer_append (fsp.c:155-163).
AppendCompact(c) ==
  LET unread == c.data_length - c.read_position
  IN [c EXCEPT
        !.stream_buffer = IF unread > 0
                          THEN Memmove(@, 0, c.read_position, unread)
                          ELSE @,
        !.data_length   = unread,
        !.read_position = 0]

\* new_capacity of fsp_buffer_append: double until `needed` fits.  The
\* product wraps; once new_capacity is 0 it stays 0 and the loop, still
\* below `needed`, never exits.
RECURSIVE DoubleUntil(_, _)
DoubleUntil(new_capacity, needed) ==
  IF new_capacity < needed
  THEN IF new_capacity = 0
       THEN Never
       ELSE DoubleUntil(SizeT(new_capacity * 2), needed)
  ELSE new_capacity

\* NewCapacity with the while loop left out: one doubling only.
NewCapacityOnce(buffer_capacity, needed) == buffer_capacity * 2

\* NewCapacity that takes exactly what is needed instead of doubling.
NewCapacityExact(buffer_capacity, needed) == needed

NewCapacity(buffer_capacity, needed) ==
  DoubleUntil(SizeT(buffer_capacity * 2), needed)

\* The growth step inside fsp_buffer_append (fsp.c:165-178), realloc
\* succeeding.
AppendGrow(c, length) ==
  LET new_capacity == NewCapacity(c.buffer_capacity,
                                  SizeT(c.data_length + length))
  IN [c EXCEPT !.stream_buffer   = Realloc(@, new_capacity),
               !.buffer_capacity = new_capacity]

\* AppendFail with the capacity recorded before the result of realloc is
\* tested.
AppendFailCapacitySet(c, length) ==
  [c EXCEPT !.buffer_capacity =
               NewCapacity(c.buffer_capacity, c.data_length + length)]

\* AppendFail after `ctx->stream_buffer = realloc(...)`: the result of
\* realloc is stored before it is tested and the buffered bytes are lost.
AppendFailBufferLost(c, length) ==
  [c EXCEPT !.stream_buffer = ReallocFresh(@, c.buffer_capacity)]

\* The context a failed realloc leaves behind: `return -1` (fsp.c:173-174).
AppendFail(c, length) == c

\* AppendCopy with `=` for `+=`: data_length becomes the payload length.
AppendCopyAssign(c, data, length) ==
  [c EXCEPT !.stream_buffer = Memcpy(@, c.data_length, data, length),
            !.data_length   = length]

\* The final copy of fsp_buffer_append (fsp.c:181-183); `+=` on a size_t.
\* Memcpy keeps to the buffer: bytes written past its end are not part of
\* the context.
AppendCopy(c, data, length) ==
  [c EXCEPT !.stream_buffer = Memcpy(@, c.data_length, data, length),
            !.data_length   = SizeT(@ + length)]

\* fsp_buffer_append that takes a null data pointer for an error: -1
\* instead of the silent return.
AppendNullDataFails(c, ctx_null, data_null, data, length, realloc_ok) ==
  IF ctx_null \/ length = 0
  THEN [ctx |-> c, ret |-> 0]
  ELSE IF data_null
  THEN [ctx |-> c, ret |-> -1]
  ELSE IF SizeT(c.data_length + length) > c.buffer_capacity
       THEN LET c1 == AppendCompact(c)
            IN IF SizeT(c1.data_length + length) > c1.buffer_capacity
               THEN IF NewCapacity(c1.buffer_capacity,
                                   SizeT(c1.data_length + length)) = Never
                    THEN [ctx |-> c1, ret |-> Never]
                    ELSE IF ~realloc_ok
                    THEN [ctx |-> AppendFail(c1, length), ret |-> -1]
                    ELSE [ctx |-> AppendCopy(AppendGrow(c1, length),
                                             data, length),
                          ret |-> 0]
               ELSE [ctx |-> AppendCopy(c1, data, length), ret |-> 0]
       ELSE [ctx |-> AppendCopy(c, data, length), ret |-> 0]

\* fsp_buffer_append without the second test (fsp.c:166): whenever the
\* payload does not fit in the free tail, the buffer is reallocated.
AppendNoSecondTest(c, ctx_null, data_null, data, length, realloc_ok) ==
  IF ctx_null \/ data_null \/ length = 0
  THEN [ctx |-> c, ret |-> 0]
  ELSE IF SizeT(c.data_length + length) > c.buffer_capacity
       THEN LET c1 == AppendCompact(c)
            IN IF ~realloc_ok
               THEN [ctx |-> AppendFail(c1, length), ret |-> -1]
               ELSE [ctx |-> AppendCopy(AppendGrow(c1, length), data, length),
                     ret |-> 0]
       ELSE [ctx |-> AppendCopy(c, data, length), ret |-> 0]

\* fsp_buffer_append without the first test (fsp.c:154): every append
\* compacts first.
AppendAlwaysCompact(c, ctx_null, data_null, data, length, realloc_ok) ==
  IF ctx_null \/ data_null \/ length = 0
  THEN [ctx |-> c, ret |-> 0]
  ELSE LET c1 == AppendCompact(c)
       IN IF SizeT(c1.data_length + length) > c1.buffer_capacity
          THEN IF ~realloc_ok
               THEN [ctx |-> AppendFail(c1, length), ret |-> -1]
               ELSE [ctx |-> AppendCopy(AppendGrow(c1, length), data, length),
                     ret |-> 0]
          ELSE [ctx |-> AppendCopy(c1, data, length), ret |-> 0]

\* fsp_buffer_append(ctx, data, length); realloc_ok is the outcome of the
\* realloc call, should the call reach it.
fsp_buffer_append(c, ctx_null, data_null, data, length, realloc_ok) ==
  IF ctx_null \/ data_null \/ length = 0
  THEN [ctx |-> c, ret |-> 0]
  ELSE IF SizeT(c.data_length + length) > c.buffer_capacity
       THEN LET c1 == AppendCompact(c)
            IN IF SizeT(c1.data_length + length) > c1.buffer_capacity
               THEN IF NewCapacity(c1.buffer_capacity,
                                   SizeT(c1.data_length + length)) = Never
                    THEN [ctx |-> c1, ret |-> Never]
                    ELSE IF ~realloc_ok
                    THEN [ctx |-> AppendFail(c1, length), ret |-> -1]
                    ELSE [ctx |-> AppendCopy(AppendGrow(c1, length),
                                             data, length),
                          ret |-> 0]
               ELSE [ctx |-> AppendCopy(c1, data, length), ret |-> 0]
       ELSE [ctx |-> AppendCopy(c, data, length), ret |-> 0]

\* The path fsp_buffer_append(c, data, length) takes for a valid context
\* and payload: "none" (length 0), "fit" (no compaction), "compact"
\* (compaction makes room), "grow" (realloc is called), "hang" (the
\* doubling loop never exits).
AppendPath(c, length) ==
  IF length = 0 THEN "none"
  ELSE IF SizeT(c.data_length + length) <= c.buffer_capacity THEN "fit"
  ELSE IF SizeT((c.data_length - c.read_position) + length)
            <= c.buffer_capacity
       THEN "compact"
  ELSE IF NewCapacity(c.buffer_capacity,
                      SizeT((c.data_length - c.read_position) + length))
            = Never
       THEN "hang"
  ELSE "grow"

\* Whether fsp_buffer_append(c, data, length) reaches its realloc call.
NeedsRealloc(c, length) == AppendPath(c, length) = "grow"

\* fsp_buffer_compact with the memmove left out.
CompactNoMove(c) ==
  [c EXCEPT !.data_length   = c.data_length - c.read_position,
            !.read_position = 0]

\* fsp_buffer_compact with `read_position = 0` left out.
CompactKeepCursor(c) ==
  LET unread == c.data_length - c.read_position
  IN [c EXCEPT
        !.stream_buffer = IF unread > 0 /\ c.read_position > 0
                          THEN Memmove(@, 0, c.read_position, unread)
                          ELSE @,
        !.data_length   = unread]

\* fsp_buffer_compact that also shrinks the buffer to the unread bytes.
CompactShrinks(c) ==
  LET unread == c.data_length - c.read_position
  IN [c EXCEPT
        !.stream_buffer   = Realloc(Memmove(@, 0, c.read_position, unread),
                                    unread),
        !.buffer_capacity = unread,
        !.data_length     = unread,
        !.read_position   = 0]

\* fsp_buffer_compact on a non-null context.
fsp_buffer_compact(c) ==
  LET unread == c.data_length - c.read_position
  IN [c EXCEPT
        !.stream_buffer = IF unread > 0 /\ c.read_position > 0
                          THEN Memmove(@, 0, c.read_position, unread)
                          ELSE @,
        !.data_length   = unread,
        !.read_position = 0]

\* fsp_set_user_data that stores nothing.
SetUserDataIgnore(c, user_data) == c

\* fsp_set_user_data / fsp_get_user_data on a non-null context.
fsp_set_user_data(c, user_data) == [c EXCEPT !.user_data = user_data]
fsp_get_user_data(c) == c.user_data

\* UpdateEofFlag that leaves the flag as it is.
UpdateEofFlagKeep(more_chunks_expected, is_end) == more_chunks_expected

\* more_chunks_expected after the "Update EOF flag" line of
\* fsp_parse_chunk (fsp.c:280): !is_end.
UpdateEofFlag(more_chunks_expected, is_end) == IF is_end # 0 THEN 0 ELSE 1

\* fsp_parse_chunk that reports a failed append as FSP_STATUS_ERROR.
ParseChunkErrorOnFail(c, ctx_null, chunk_null, chunk, length, is_end, realloc_ok) ==
  IF ctx_null
  THEN [ctx |-> c, ret |-> FSP_STATUS_ERROR]
  ELSE LET a == fsp_buffer_append(c, FALSE, chunk_null, chunk, length,
                                  realloc_ok)
       IN IF a.ret # 0
          THEN [ctx |-> a.ctx, ret |-> FSP_STATUS_ERROR]
          ELSE [ctx |-> [a.ctx EXCEPT !.more_chunks_expected =
                                         UpdateEofFlag(@, is_end)],
                ret |-> IF is_end # 0 THEN FSP_STATUS_OK
                        ELSE FSP_STATUS_NEED_DATA]

\* fsp_parse_chunk with the flag update (fsp.c:280) ahead of the append.
ParseChunkFlagFirst(c, ctx_null, chunk_null, chunk, length, is_end, realloc_ok) ==
  IF ctx_null
  THEN [ctx |-> c, ret |-> FSP_STATUS_ERROR]
  ELSE LET c0 == [c EXCEPT !.more_chunks_expected = UpdateEofFlag(@, is_end)]
           a == fsp_buffer_append(c0, FALSE, chunk_null, chunk, length,
                                  realloc_ok)
       IN IF a.ret # 0
          THEN [ctx |-> a.ctx, ret |-> FSP_STATUS_NO_MEMORY]
          ELSE [ctx |-> a.ctx,
                ret |-> IF is_end # 0 THEN FSP_STATUS_OK
                        ELSE FSP_STATUS_NEED_DATA]

\* fsp_parse_chunk(ctx, chunk, length, is_end).
fsp_parse_chunk(c, ctx_null, chunk_null, chunk, length, is_end, realloc_ok) ==
  IF ctx_null
  THEN [ctx |-> c, ret |-> FSP_STATUS_ERROR]
  ELSE LET a == fsp_buffer_append(c, FALSE, chunk_null, chunk, length,
                                  realloc_ok)
       IN IF a.ret = Never
          THEN [ctx |-> a.ctx, ret |-> Never]
          ELSE IF a.ret # 0
          THEN [ctx |-> a.ctx, ret |-> FSP_STATUS_NO_MEMORY]
          ELSE LET c2 == [a.ctx EXCEPT !.more_chunks_expected =
                                          UpdateEofFlag(@, is_end)]
               IN [ctx |-> c2,
                   ret |-> IF is_end # 0 /\ c2.data_length > 0
                           THEN FSP_STATUS_OK
                           ELSE IF is_end = 0
                                THEN FSP_STATUS_NEED_DATA
                                ELSE FSP_STATUS_OK]

(***************************************************************************)
(* Spec: the library calls on one context, in any order.                   *)
(*                                                                         *)
(* fsp.c never looks at the bytes it stores, so the producer's stream is   *)
(* taken to be 1, 2, 3, ...: every byte is distinct, and a byte lost,      *)
(* repeated or out of place shows in the histories.  A payload that an     *)
(* append refuses (out of memory) is offered again by the next call.       *)
(***************************************************************************)
\* The next `n` bytes of the producer's stream.
Payload(n) == [i \in 1..n |-> Len(accepted) + i]

\* The record kept of a call.
Call(op, n, ret, is_end, path) ==
  [op |-> op, n |-> n, ret |-> ret, is_end |-> is_end, path |-> path]

NoCall == Call("create", 0, 0, 0, "none")

\* What test_lexer_lex returns: a token kind ("0" is the value 0, no token)
\* and the number of bytes of its text.
Token(kind, len) == [kind |-> kind, len |-> len]
NoToken == Token("0", 0)

HostIdle ==
  /\ input = << >>
  /\ chunk_size = 1
  /\ pos = 0
  /\ final_drain = 0
  /\ is_eof = 0
  /\ token = NoToken
  /\ status = 0
  /\ hpc = "idle"
  /\ yy_buf = << >>
  /\ pulled = << >>
  /\ pushed = << >>
  /\ eof_pushed = 0
  /\ lex_calls = 0

Created ==
  /\ ctx = fsp_create
  /\ accepted = << >>
  /\ delivered = << >>
  /\ appended = 0
  /\ last = NoCall

Init == Created /\ HostIdle

\* fsp_buffer_append(ctx, data, n) with a payload of n bytes; realloc_ok
\* is read only by a call that reaches realloc.
ApiAppend(n, realloc_ok) ==
  LET data == Payload(n)
      r == fsp_buffer_append(ctx, FALSE, FALSE, data, n, realloc_ok)
  IN /\ Len(accepted) + n <= MaxStream
     /\ realloc_ok \/ NeedsRealloc(ctx, n)
     /\ ctx' = r.ctx
     /\ accepted' = IF r.ret = 0 THEN accepted \o data ELSE accepted
     /\ appended' = IF r.ret = 0 THEN appended + n ELSE appended
     /\ last' = Call("append", n, r.ret, 0, AppendPath(ctx, n))
     /\ UNCHANGED <<delivered, host_vars>>

\* fsp_buffer_append with a null context, a null data pointer, or both
\* (recorded as "append_null").  With a null context the call is not given
\* `ctx`, which stays as it is.
ApiAppendNull(n, ctx_null, data_null) ==
  LET r == fsp_buffer_append(ctx, ctx_null, data_null, << >>, n, TRUE)
  IN /\ ctx_null \/ data_null
     /\ ctx' = IF ctx_null THEN ctx ELSE r.ctx
     /\ last' = Call("append_null", n, r.ret, 0, "none")
     /\ UNCHANGED <<accepted, delivered, appended, host_vars>>

\* fsp_read_input(ctx, buffer, max_size) with a buffer of max_size bytes
ApiRead(max_size) ==
  LET r == fsp_read_input(ctx, FALSE, FALSE, max_size)
  IN /\ ctx' = r.ctx
     /\ delivered' = delivered \o r.out
     /\ last' = Call("read", max_size, r.ret, 0, "none")
     /\ UNCHANGED <<accepted, appended, host_vars>>

\* fsp_buffer_compact(ctx)
ApiCompact ==
  /\ ctx' = fsp_buffer_compact(ctx)
  /\ last' = Call("compact", 0, 0, 0, "none")
  /\ UNCHANGED <<accepted, delivered, appended, host_vars>>

\* fsp_buffer_available(ctx)
ApiAvailable ==
  /\ last' = Call("available", 0, fsp_buffer_available(ctx), 0, "none")
  /\ UNCHANGED <<ctx, accepted, delivered, appended, host_vars>>

\* fsp_set_user_data(ctx, user_data)
ApiSetUserData(user_data) ==
  /\ ctx' = fsp_set_user_data(ctx, user_data)
  /\ last' = Call("set_user_data", user_data, 0, 0, "none")
  /\ UNCHANGED <<accepted, delivered, appended, host_vars>>

\* fsp_get_user_data(ctx)
ApiGetUserData ==
  /\ last' = Call("get_user_data", 0, fsp_get_user_data(ctx), 0, "none")
  /\ UNCHANGED <<ctx, accepted, delivered, appended, host_vars>>

\* fsp_parse_chunk(ctx, chunk, n, is_end) with a chunk of n bytes
ApiParseChunk(n, is_end, realloc_ok) ==
  LET chunk == Payload(n)
      r == fsp_parse_chunk(ctx, FALSE, FALSE, chunk, n, is_end, realloc_ok)
      took == r.ret \in {FSP_STATUS_OK, FSP_STATUS_NEED_DATA}
  IN /\ Len(accepted) + n <= MaxStream
     /\ realloc_ok \/ NeedsRealloc(ctx, n)
     /\ ctx' = r.ctx
     /\ accepted' = IF took THEN accepted \o chunk ELSE accepted
     /\ appended' = IF took THEN appended + n ELSE appended
     /\ last' = Call("parse_chunk", n, r.ret, is_end,
                     AppendPath(ctx, n))
     /\ UNCHANGED <<delivered, host_vars>>

Next ==
  \/ \E n \in 0..MaxChunk, realloc_ok \in BOOLEAN : ApiAppend(n, realloc_ok)
  \/ \E n \in 0..MaxChunk, ctx_null \in BOOLEAN, data_null \in BOOLEAN :
       ApiAppendNull(n, ctx_null, data_null)
  \/ \E max_size \in 0..MaxRead : ApiRead(max_size)
  \/ ApiCompact
  \/ ApiAvailable
  \/ \E user_data \in {NULL, SomePointer} : ApiSetUserData(user_data)
  \/ ApiGetUserData
  \/ \E n \in 0..MaxChunk, is_end \in {0, 1}, realloc_ok \in BOOLEAN :
       ApiParseChunk(n, is_end, realloc_ok)

Spec == Init /\ [][Next]_vars

(***************************************************************************)
(* SpecSize: the four buffer primitives with payload lengths over the      *)
(* whole range of size_t.  The payload is a real array next to the buffer, *)
(* so buffer_capacity + length is within the address space; its bytes do   *)
(* not matter here and are all 1.  The histories are not kept.  Reads are   *)
(* asked for the small sizes of Spec, for INT_MAX + 1 and for SIZE_MAX.     *)
(***************************************************************************)
SizePayload(n) == [i \in 1..n |-> 1]

\* The thread is inside a call that never returns, or a call has written
\* past the buffer, after which nothing is known of the process.
Stuck == last.ret = Never \/ last.path = "overrun"

SizeAppend(n, realloc_ok) ==
  LET r == fsp_buffer_append(ctx, FALSE, FALSE, SizePayload(n), n, realloc_ok)
  IN /\ ~Stuck
     /\ ctx.buffer_capacity + n <= SIZE_MAX
     /\ realloc_ok \/ NeedsRealloc(ctx, n)
     /\ ctx' = r.ctx
     /\ last' = Call("append", n, r.ret, 0, AppendPath(ctx, n))
     /\ UNCHANGED <<accepted, delivered, appended, host_vars>>

SizeRead(max_size) ==
  LET r == fsp_read_input(ctx, FALSE, FALSE, max_size)
  IN /\ ~Stuck
     /\ ctx' = r.ctx
     /\ last' = Call("read", max_size, r.ret, 0, "none")
     /\ UNCHANGED <<accepted, delivered, appended, host_vars>>

SizeCompact ==
  /\ ~Stuck
  /\ ctx' = fsp_buffer_compact(ctx)
  /\ last' = Call("compact", 0, 0, 0, "none")
  /\ UNCHANGED <<accepted, delivered, appended, host_vars>>

SizeAvailable ==
  /\ ~Stuck
  /\ last' = Call("available", 0, fsp_buffer_available(ctx), 0, "none")
  /\ UNCHANGED <<ctx, accepted, delivered, appended, host_vars>>

SizeNext ==
  \/ \E n \in 0..SIZE_MAX, realloc_ok \in BOOLEAN : SizeAppend(n, realloc_ok)
  \/ \E max_size \in (0..MaxRead) \cup {INT_MAX + 1, SIZE_MAX} :
       SizeRead(max_size)
  \/ SizeCompact
  \/ SizeAvailable

SpecSize == Init /\ [][SizeNext]_vars

(***************************************************************************)
(* SpecWrap: the calls of SpecSize, and appends whose length is so large   *)
(* that data_length + length wraps around size_t.  The wrapped sum passes  *)
(* the test at fsp.c:154, and the memcpy at fsp.c:182 runs past the end of *)
(* the buffer: undefined behaviour, of which two outcomes are kept, the    *)
(* call returning and the process being stopped inside the call.           *)
(***************************************************************************)
\* data_length + length is not representable in size_t.
SumWraps(c, length) == SizeT(c.data_length + length) # c.data_length + length

SizeAppendOver(n, returns) ==
  LET r == fsp_buffer_append(ctx, FALSE, FALSE, SizePayload(n), n, TRUE)
  IN /\ ~Stuck
     /\ SumWraps(ctx, n)
     /\ ctx' = IF returns THEN r.ctx ELSE ctx
     /\ last' = Call("append", n, IF returns THEN r.ret ELSE Never, 0,
                     "overrun")
     /\ UNCHANGED <<accepted, delivered, appended, host_vars>>

WrapNext ==
  \/ SizeNext
  \/ \E n \in 0..SIZE_MAX, returns \in BOOLEAN : SizeAppendOver(n, returns)

SpecWrap == Init /\ [][WrapNext]_vars

(***************************************************************************)
(* SpecNull: the calls of SpecSize, and every entry point called with a    *)
(* null context.  Such a call is not given `ctx`, which stays as it is;    *)
(* the call is recorded with the path "null_ctx".                          *)
(***************************************************************************)
\* fsp_buffer_available(NULL): `if(!ctx) return 0;`
AvailableOfNull == 0
\* fsp_get_user_data(NULL): `ctx ? ctx->user_data : NULL`
GetUserDataOfNull == NULL

\* The record of a call on a null context that returned `ret`.
NullCall(op, n, ret, is_end) == Call(op, n, ret, is_end, "null_ctx")

NullAppend(n) ==
  LET r == fsp_buffer_append(ctx, TRUE, FALSE, SizePayload(n), n, TRUE)
  IN /\ ~Stuck
     /\ last' = NullCall("append", n, r.ret, 0)
     /\ UNCHANGED <<ctx, accepted, delivered, appended, host_vars>>

NullRead(max_size) ==
  LET r == fsp_read_input(ctx, TRUE, FALSE, max_size)
  IN /\ ~Stuck
     /\ last' = NullCall("read", max_size, r.ret, 0)
     /\ UNCHANGED <<ctx, accepted, delivered, appended, host_vars>>

\* fsp_buffer_compact(NULL) and fsp_set_user_data(NULL, p) return nothing
\* (void); they are recorded with 0.
NullCompact ==
  /\ ~Stuck
  /\ last' = NullCall("compact", 0, 0, 0)
  /\ UNCHANGED <<ctx, accepted, delivered, appended, host_vars>>

NullAvailable ==
  /\ ~Stuck
  /\ last' = NullCall("available", 0, AvailableOfNull, 0)
  /\ UNCHANGED <<ctx, accepted, delivered, appended, host_vars>>

NullSetUserData(user_data) ==
  /\ ~Stuck
  /\ last' = NullCall("set_user_data", user_data, 0, 0)
  /\ UNCHANGED <<ctx, accepted, delivered, appended, host_vars>>

NullGetUserData ==
  /\ ~Stuck
  /\ last' = NullCall("get_user_data", 0, GetUserDataOfNull, 0)
  /\ UNCHANGED <<ctx, accepted, delivered, appended, host_vars>>

NullParseChunk(n, is_end) ==
  LET r == fsp_parse_chunk(ctx, TRUE, FALSE, SizePayload(n), n, is_end, TRUE)
  IN /\ ~Stuck
     /\ last' = NullCall("parse_chunk", n, r.ret, is_end)
     /\ UNCHANGED <<ctx, accepted, delivered, appended, host_vars>>

NullNext ==
  \/ SizeNext
  \/ \E n \in 0..MaxChunk : NullAppend(n)
  \/ \E max_size \in 0..MaxRead : NullRead(max_size)
  \/ NullCompact
  \/ NullAvailable
  \/ \E user_data \in {NULL, SomePointer} : NullSetUserData(user_data)
  \/ NullGetUserData
  \/ \E n \in 0..MaxChunk, is_end \in {0, 1} : NullParseChunk(n, is_end)

SpecNull == Init /\ [][NullNext]_vars

(***************************************************************************)
(* SpecTwo: two contexts, the calls on them interleaved in any order.      *)
(* Here ctx and appended are pairs, one component per context, and last    *)
(* records the latest call together with the context it was made on; the   *)
(* bytes appended to context i all have the value i.  fsp.c has no file-   *)
(* scope or static variable: a call reaches memory only through the        *)
(* context pointer it is given.  To keep the pairs few, the user value is  *)
(* set to one non-null pointer and fsp_parse_chunk is given the whole       *)
(* stream of its context as one chunk.                                     *)
(***************************************************************************)
Contexts == {1, 2}

TwoPayload(i, n) == [k \in 1..n |-> i]

\* A shared buffer: a call on either context writes both.
WritesAll(i) == Contexts

\* The contexts that a call on context i writes.
Writes(i) == {i}

\* The record of a call made on context i.
CallOn(i, call) == [on |-> i] @@ call

\* The pair after a call on context i left that context as c.
TwoUpdate(pair, i, c) ==
  [j \in Contexts |-> IF j \in Writes(i) THEN c ELSE pair[j]]

TwoInit ==
  /\ ctx = [j \in Contexts |-> fsp_create]
  /\ appended = [j \in Contexts |-> 0]
  /\ last = CallOn(1, NoCall)
  /\ accepted = << >>
  /\ delivered = << >>
  /\ HostIdle

TwoAppend(i, n, realloc_ok) ==
  LET r == fsp_buffer_append(ctx[i], FALSE, FALSE, TwoPayload(i, n), n,
                             realloc_ok)
  IN /\ appended[i] + n <= TwoStream
     /\ realloc_ok \/ NeedsRealloc(ctx[i], n)
     /\ ctx' = TwoUpdate(ctx, i, r.ctx)
     /\ appended' = [appended EXCEPT ![i] = IF r.ret = 0 THEN @ + n ELSE @]
     /\ last' = CallOn(i, Call("append", n, r.ret, 0, AppendPath(ctx[i], n)))
     /\ UNCHANGED <<accepted, delivered, host_vars>>

TwoRead(i, max_size) ==
  LET r == fsp_read_input(ctx[i], FALSE, FALSE, max_size)
  IN /\ ctx' = TwoUpdate(ctx, i, r.ctx)
     /\ last' = CallOn(i, Call("read", max_size, r.ret, 0, "none"))
     /\ UNCHANGED <<accepted, delivered, appended, host_vars>>

TwoCompact(i) ==
  /\ ctx' = TwoUpdate(ctx, i, fsp_buffer_compact(ctx[i]))
  /\ last' = CallOn(i, Call("compact", 0, 0, 0, "none"))
  /\ UNCHANGED <<accepted, delivered, appended, host_vars>>

TwoSetUserData(i, user_data) ==
  /\ ctx' = TwoUpdate(ctx, i, fsp_set_user_data(ctx[i], user_data))
  /\ last' = CallOn(i, Call("set_user_data", user_data, 0, 0, "none"))
  /\ UNCHANGED <<accepted, delivered, appended, host_vars>>

TwoParseChunk(i, n, is_end, realloc_ok) ==
  LET r == fsp_parse_chunk(ctx[i], FALSE, FALSE, TwoPayload(i, n), n, is_end,
                           realloc_ok)
  IN /\ appended[i] + n <= TwoStream
     /\ realloc_ok \/ NeedsRealloc(ctx[i], n)
     /\ ctx' = TwoUpdate(ctx, i, r.ctx)
     /\ appended' = [appended EXCEPT
                       ![i] = IF r.ret # FSP_STATUS_NO_MEMORY
                              THEN @ + n ELSE @]
     /\ last' = CallOn(i, Call("parse_chunk", n, r.ret, is_end,
                                AppendPath(ctx[i], n)))
     /\ UNCHANGED <<accepted, delivered, host_vars>>

TwoNext ==
  \E i \in Contexts :
    \/ \E n \in 0..TwoStream, realloc_ok \in BOOLEAN :
         TwoAppend(i, n, realloc_ok)
    \/ \E max_size \in 0..MaxRead : TwoRead(i, max_size)
    \/ TwoCompact(i)
    \/ TwoSetUserData(i, SomePointer)
    \/ \E is_end \in {0, 1}, realloc_ok \in BOOLEAN :
         TwoParseChunk(i, TwoStream, is_end, realloc_ok)

SpecTwo == TwoInit /\ [][TwoNext]_vars


(***************************************************************************)
(* The lexer behind test_lexer_lex.  Its source (test_lexer.l) is not part *)
(* of the sources at hand; it is modelled from the refill-hook contract:   *)
(* the hook calls fsp_read_input, a 0-byte result means "no data right     *)
(* now", and the lexer then reports "no token yet" keeping what it has     *)
(* pulled.  The toy lexical grammar: a WORD is a maximal run of letters    *)
(* and is recognised once the byte after it is seen; a delimiter byte is a *)
(* DELIM token; any other byte is an ERROR token.                          *)
(***************************************************************************)
LETTER == 1
DELIMITER == 2
BAD == 3
InputBytes == {LETTER, DELIMITER, BAD}

\* Number of leading letters of a byte sequence.
RECURSIVE LetterRun(_)
LetterRun(buf) ==
  IF buf = << >> \/ Head(buf) # LETTER THEN 0 ELSE 1 + LetterRun(Tail(buf))

\* The token at the front of buf, NoToken when buf holds no whole token.
Scan(buf) ==
  IF buf = << >> THEN NoToken
  ELSE IF Head(buf) = DELIMITER THEN Token("DELIM", 1)
  ELSE IF Head(buf) = BAD THEN Token("ERROR", 1)
  ELSE IF LetterRun(buf) < Len(buf) THEN Token("WORD", LetterRun(buf))
  ELSE NoToken

Drop(buf, n) == SubSeq(buf, n + 1, Len(buf))

\* One invocation of the lexer on context c with buf already pulled:
\* refill through fsp_read_input until a whole token is in buf or the hook
\* reads nothing.  `out` collects the bytes pulled by this invocation.
RECURSIVE Lex(_, _, _)
Lex(c, buf, out) ==
  LET t == Scan(buf)
  IN IF t # NoToken
     THEN [ctx |-> c, yy_buf |-> Drop(buf, t.len), token |-> t, out |-> out]
     ELSE LET r == fsp_read_input(c, FALSE, FALSE, YY_READ_BUF_SIZE)
          IN IF r.ret = 0
             THEN [ctx |-> c, yy_buf |-> buf, token |-> NoToken, out |-> out]
             ELSE Lex(r.ctx, buf \o r.out, out \o r.out)

\* The whole tokens of a byte sequence, in order (the reference
\* tokenisation of an input that is resident as a whole).
RECURSIVE Tokens(_)
Tokens(buf) ==
  LET t == Scan(buf)
  IN IF t = NoToken THEN << >> ELSE <<t>> \o Tokens(Drop(buf, t.len))

\* The tokens up to and including the first ERROR token.
RECURSIVE UpToError(_)
UpToError(ts) ==
  IF ts = << >> THEN << >>
  ELSE IF Head(ts).kind = "ERROR" THEN <<Head(ts)>>
  ELSE <<Head(ts)>> \o UpToError(Tail(ts))

(***************************************************************************)
(* The push parser of test_parser.y, as far as the host loop sees it.      *)
(***************************************************************************)
YYPUSH_MORE == 4

\* PushToken for a parser that is done after any token.
PushTokenStops(t) == 0

\* test_parser_push_parse with a token other than 0: the grammar's state
\* after `program` shifts the error token (statement: error SEMICOLON), so
\* a syntax error is recovered or the token discarded, and the parser asks
\* for more.
PushToken(t) == YYPUSH_MORE

\* PushEofResults for a parser that rejects every input.
PushEofResultsAbort(ts) == {1}

\* test_parser_push_parse with token 0 after the tokens ts.  With no token
\* before it the empty `program` is reduced and accepted (0); otherwise
\* accept (0) or abort (1), which one depends on the statements, which the
\* model leaves open.
PushEofResults(ts) == IF ts = << >> THEN {0} ELSE {0, 1}

(***************************************************************************)
(* SpecHost: test_streaming_parser(input, chunk_size, ...).                *)
(***************************************************************************)
RECURSIVE SeqsUpTo(_)
SeqsUpTo(n) ==
  IF n = 0 THEN {<< >>}
  ELSE LET shorter == SeqsUpTo(n - 1)
       IN shorter \cup
          {Append(q, b) : q \in {x \in shorter : Len(x) = n - 1},
                          b \in InputBytes}

HostInit ==
  /\ Created
  /\ input \in SeqsUpTo(MaxInput)
  /\ chunk_size \in 1..MaxChunk
  /\ pos = 0
  /\ final_drain = 0
  /\ is_eof = 0
  /\ token = NoToken
  /\ status = 0
  /\ hpc = "loop"
  /\ yy_buf = << >>
  /\ pulled = << >>
  /\ pushed = << >>
  /\ eof_pushed = 0
  /\ lex_calls = 0

input_len == Len(input)

\* while(pos < input_len || final_drain)                  (fsp_test.c:245)
LoopCondition == pos < input_len \/ final_drain # 0

HostLoop ==
  /\ hpc = "loop"
  /\ hpc' = IF LoopCondition THEN "fill" ELSE "push_eof"
  /\ UNCHANGED <<ctx_vars, input, chunk_size, pos, final_drain, is_eof,
                 token, status, yy_buf, pulled, pushed, eof_pushed,
                 lex_calls>>

\* FillCondition without the threshold: phase 1 appends the whole input.
FillConditionNoThreshold == pos < input_len

\* Phase 1, the loop body: append the next chunk         (fsp_test.c:249-265)
FillCondition ==
  pos < input_len /\ fsp_buffer_available(ctx) < MIN_BUFFER_FOR_LEX

HostFill(realloc_ok) ==
  LET chunk == IF input_len - pos > chunk_size
               THEN chunk_size ELSE input_len - pos
      data == SubSeq(input, pos + 1, pos + chunk)
      r == fsp_buffer_append(ctx, FALSE, FALSE, data, chunk, realloc_ok)
  IN /\ hpc = "fill"
     /\ FillCondition
     /\ realloc_ok \/ NeedsRealloc(ctx, chunk)
     /\ ctx' = r.ctx
     /\ IF r.ret < 0
        THEN /\ hpc' = "failed"
             /\ UNCHANGED <<pos, accepted, appended>>
        ELSE /\ hpc' = "fill"
             /\ pos' = pos + chunk
             /\ accepted' = accepted \o data
             /\ appended' = appended + chunk
     /\ last' = Call("append", chunk, r.ret, 0, AppendPath(ctx, chunk))
     /\ UNCHANGED <<delivered, input, chunk_size, final_drain, is_eof, token,
                    status, yy_buf, pulled, pushed, eof_pushed, lex_calls>>

\* IsEof computed as the single-phase loop computes is_end, from the
\* position one chunk ahead: end of input is seen one byte early.
IsEofEarly(p, len) == IF p + 1 >= len THEN 1 ELSE 0

\* IsEof that holds after any fill: the first chunks are taken for the
\* whole input.
IsEofAlways(p, len) == 1

\* is_eof = (pos >= input_len)                               (fsp_test.c:268)
IsEof(p, len) == IF p >= len THEN 1 ELSE 0

\* Phase 1 left; is_eof, and the end-of-input signal      (fsp_test.c:268-274)
HostCheckEof ==
  LET eof == IsEof(pos, input_len)
  IN /\ hpc = "fill"
     /\ ~FillCondition
     /\ is_eof' = eof
     /\ IF eof # 0 /\ final_drain = 0
        THEN /\ ctx' = [ctx EXCEPT !.more_chunks_expected = 0]
             /\ final_drain' = 1
        ELSE UNCHANGED <<ctx, final_drain>>
     /\ hpc' = "drain"
     /\ UNCHANGED <<accepted, delivered, appended, last, input, chunk_size,
                    pos, token, status, yy_buf, pulled, pushed, eof_pushed,
                    lex_calls>>

\* while(fsp_buffer_available(ctx) > 0 || (is_eof && final_drain))
DrainCondition ==
  fsp_buffer_available(ctx) > 0 \/ (is_eof # 0 /\ final_drain # 0)

\* NeedMoreChunks with the threshold test left out: the lexer is called
\* whenever the drain loop runs.
NeedMoreChunksNever(eof, available) == FALSE

\* NeedMoreChunks with the test always true: phase 2 always goes back for
\* more chunks.
NeedMoreChunksAlways(eof, available) == TRUE

\* NeedMoreChunks as the single-phase loop has it: back for more chunks
\* only when nothing at all is unread.
NeedMoreChunksWhenEmpty(eof, available) == eof = 0 /\ available = 0

\* if(!is_eof && fsp_buffer_available(ctx) < MIN_BUFFER_FOR_LEX) break;
NeedMoreChunks(eof, available) ==
  eof = 0 /\ available < MIN_BUFFER_FOR_LEX

\* Phase 2, up to the call of the lexer                  (fsp_test.c:277-283)
HostDrain ==
  /\ hpc = "drain"
  /\ hpc' = IF DrainCondition
               /\ ~NeedMoreChunks(is_eof, fsp_buffer_available(ctx))
            THEN "lex" ELSE "after"
  /\ UNCHANGED <<ctx_vars, input, chunk_size, pos, final_drain, is_eof,
                 token, status, yy_buf, pulled, pushed, eof_pushed,
                 lex_calls>>

\* token = test_lexer_lex(&lval, scanner)                    (fsp_test.c:286)
HostLex ==
  LET r == Lex(ctx, yy_buf, << >>)
  IN /\ hpc = "lex"
     /\ ctx' = r.ctx
     /\ yy_buf' = r.yy_buf
     /\ token' = r.token
     /\ pulled' = pulled \o r.out
     /\ delivered' = delivered \o r.out
     /\ lex_calls' = lex_calls + 1
     /\ hpc' = "token"
     /\ UNCHANGED <<accepted, appended, last, input, chunk_size, pos,
                    final_drain, is_eof, status, pushed, eof_pushed>>

\* What the host does with "no token": 0 to go back for more chunks,
\* 1 when the drain is over                               (fsp_test.c:288-297)
DrainOver(eof) == IF eof = 0 THEN 0 ELSE 1

\* if(token == 0) ...                                     (fsp_test.c:288-297)
HostNoToken ==
  /\ hpc = "token"
  /\ token.kind = "0"
  /\ final_drain' = IF DrainOver(is_eof) = 1 THEN 0 ELSE final_drain
  /\ hpc' = "after"
  /\ UNCHANGED <<ctx_vars, input, chunk_size, pos, is_eof, token, status,
                 yy_buf, pulled, pushed, eof_pushed, lex_calls>>

\* if(token == ERROR) { status = 1; goto done; }          (fsp_test.c:299-302)
HostErrorToken ==
  /\ hpc = "token"
  /\ token.kind = "ERROR"
  /\ status' = 1
  /\ hpc' = "done"
  /\ UNCHANGED <<ctx_vars, input, chunk_size, pos, final_drain, is_eof,
                 token, yy_buf, pulled, pushed, eof_pushed, lex_calls>>

\* status = test_parser_push_parse(pstate, token, ...)    (fsp_test.c:304-310)
HostPushToken ==
  /\ hpc = "token"
  /\ token.kind \notin {"0", "ERROR"}
  /\ status' = PushToken(token)
  /\ pushed' = Append(pushed, token)
  /\ hpc' = IF PushToken(token) # YYPUSH_MORE THEN "done" ELSE "drain"
  /\ UNCHANGED <<ctx_vars, input, chunk_size, pos, final_drain, is_eof,
                 token, yy_buf, pulled, eof_pushed, lex_calls>>

\* LeaveLoop without the test of is_eof: the loop is left whenever no
\* final drain is going on.
LeaveLoopNoEofTest(drain, eof) == drain = 0

\* The condition of the break: !final_drain && is_eof       (fsp_test.c:314)
LeaveLoop(drain, eof) == drain = 0 /\ eof # 0

\* if(!final_drain && is_eof) break;                      (fsp_test.c:313-315)
HostAfter ==
  /\ hpc = "after"
  /\ hpc' = IF LeaveLoop(final_drain, is_eof) THEN "push_eof" ELSE "loop"
  /\ UNCHANGED <<ctx_vars, input, chunk_size, pos, final_drain, is_eof,
                 token, status, yy_buf, pulled, pushed, eof_pushed,
                 lex_calls>>

\* AfterFinalPush with the final push inside the outer loop.
AfterFinalPushLoops == "loop"

\* Where control is after the final push: the label done   (fsp_test.c:321)
AfterFinalPush == "done"

\* status = test_parser_push_parse(pstate, 0, NULL, ...)     (fsp_test.c:319)
HostPushEof(result) ==
  /\ hpc = "push_eof"
  /\ status' = result
  /\ eof_pushed' = eof_pushed + 1
  /\ hpc' = AfterFinalPush
  /\ UNCHANGED <<ctx_vars, input, chunk_size, pos, final_drain, is_eof,
                 token, yy_buf, pulled, pushed, lex_calls>>

HostNext ==
  \/ HostLoop
  \/ \E realloc_ok \in BOOLEAN : HostFill(realloc_ok)
  \/ HostCheckEof
  \/ HostDrain
  \/ HostLex
  \/ HostNoToken
  \/ HostErrorToken
  \/ HostPushToken
  \/ HostAfter
  \/ \E result \in PushEofResults(pushed) : HostPushEof(result)

SpecHost == HostInit /\ [][HostNext]_vars

\* test_streaming_parser is a sequential function: as long as it has a next
\* statement, it executes it.
SpecHostFair == SpecHost /\ WF_vars(HostNext)

(***************************************************************************)
(* SpecLoops: the two-phase loop of SpecHost side by side with the earlier *)
(* single-phase test_streaming_parser, which invokes the lexer right after *)
(* every append.  A run is one or the other; the single-phase loop has its *)
(* own positions "s_loop", "s_check", "s_lex", "s_token" and shares the    *)
(* final push and the end with the two-phase loop.  It keeps is_end in     *)
(* is_eof and never touches more_chunks_expected or final_drain.           *)
(***************************************************************************)
SingleInit ==
  /\ Created
  /\ input \in SeqsUpTo(MaxInput)
  /\ chunk_size \in 1..MaxChunk
  /\ pos = 0
  /\ final_drain = 0
  /\ is_eof = 0
  /\ token = NoToken
  /\ status = 0
  /\ hpc = "s_loop"
  /\ yy_buf = << >>
  /\ pulled = << >>
  /\ pushed = << >>
  /\ eof_pushed = 0
  /\ lex_calls = 0

\* while(pos < input_len): append the next chunk, or leave for the final
\* push.
SingleLoopExit ==
  /\ hpc = "s_loop"
  /\ ~(pos < input_len)
  /\ hpc' = "push_eof"
  /\ UNCHANGED <<ctx_vars, input, chunk_size, pos, final_drain, is_eof,
                 token, status, yy_buf, pulled, pushed, eof_pushed,
                 lex_calls>>

\* chunk, is_end, fsp_buffer_append, pos += chunk.
SingleAppend(realloc_ok) ==
  LET chunk == IF input_len - pos > chunk_size
               THEN chunk_size ELSE input_len - pos
      data == SubSeq(input, pos + 1, pos + chunk)
      r == fsp_buffer_append(ctx, FALSE, FALSE, data, chunk, realloc_ok)
  IN /\ hpc = "s_loop"
     /\ pos < input_len
     /\ realloc_ok \/ NeedsRealloc(ctx, chunk)
     /\ is_eof' = IsEof(pos + chunk, input_len)
     /\ ctx' = r.ctx
     /\ IF r.ret < 0
        THEN /\ hpc' = "failed"
             /\ UNCHANGED <<pos, accepted, appended>>
        ELSE /\ hpc' = "s_check"
             /\ pos' = pos + chunk
             /\ accepted' = accepted \o data
             /\ appended' = appended + chunk
     /\ last' = Call("append", chunk, r.ret, 0, AppendPath(ctx, chunk))
     /\ UNCHANGED <<delivered, input, chunk_size, final_drain, token,
                    status, yy_buf, pulled, pushed, eof_pushed, lex_calls>>

\* if(fsp_buffer_available(ctx) == 0 && !is_end) break;
SingleCheck ==
  /\ hpc = "s_check"
  /\ hpc' = IF fsp_buffer_available(ctx) = 0 /\ is_eof = 0
            THEN "s_loop" ELSE "s_lex"
  /\ UNCHANGED <<ctx_vars, input, chunk_size, pos, final_drain, is_eof,
                 token, status, yy_buf, pulled, pushed, eof_pushed,
                 lex_calls>>

\* token = test_lexer_lex(&lval, scanner)
SingleLex ==
  LET r == Lex(ctx, yy_buf, << >>)
  IN /\ hpc = "s_lex"
     /\ ctx' = r.ctx
     /\ yy_buf' = r.yy_buf
     /\ token' = r.token
     /\ pulled' = pulled \o r.out
     /\ delivered' = delivered \o r.out
     /\ lex_calls' = lex_calls + 1
     /\ hpc' = "s_token"
     /\ UNCHANGED <<accepted, appended, last, input, chunk_size, pos,
                    final_drain, is_eof, status, pushed, eof_pushed>>

\* if(token == 0): the push of token 0 when is_end, else break.
SingleNoToken ==
  /\ hpc = "s_token"
  /\ token.kind = "0"
  /\ hpc' = IF is_eof # 0 THEN "push_eof" ELSE "s_loop"
  /\ UNCHANGED <<ctx_vars, input, chunk_size, pos, final_drain, is_eof,
                 token, status, yy_buf, pulled, pushed, eof_pushed,
                 lex_calls>>

\* if(token == ERROR) { status = 1; goto done; }
SingleErrorToken ==
  /\ hpc = "s_token"
  /\ token.kind = "ERROR"
  /\ status' = 1
  /\ hpc' = "done"
  /\ UNCHANGED <<ctx_vars, input, chunk_size, pos, final_drain, is_eof,
                 token, yy_buf, pulled, pushed, eof_pushed, lex_calls>>

\* status = test_parser_push_parse(pstate, token, ...)
SinglePushToken ==
  /\ hpc = "s_token"
  /\ token.kind \notin {"0", "ERROR"}
  /\ status' = PushToken(token)
  /\ pushed' = Append(pushed, token)
  /\ hpc' = IF PushToken(token) # YYPUSH_MORE THEN "done" ELSE "s_check"
  /\ UNCHANGED <<ctx_vars, input, chunk_size, pos, final_drain, is_eof,
                 token, yy_buf, pulled, eof_pushed, lex_calls>>

SingleNext ==
  \/ SingleLoopExit
  \/ \E realloc_ok \in BOOLEAN : SingleAppend(realloc_ok)
  \/ SingleCheck
  \/ SingleLex
  \/ SingleNoToken
  \/ SingleErrorToken
  \/ SinglePushToken

LoopsNext == HostNext \/ SingleNext

SpecLoops == (HostInit \/ SingleInit) /\ [][LoopsNext]_vars

(***************************************************************************)
(* Properties.                                                             *)
(***************************************************************************)
IsPrefix(p, q) == Len(p) <= Len(q) /\ SubSeq(q, 1, Len(p)) = p

\* C1: in every state reached by any interleaving of append (successful or
\* failed), read, compact and parse_chunk, the bytes delivered by reads are
\* a prefix of the bytes accepted by successful appends, and the unread
\* region [read_position, data_length) holds exactly the rest, in order.
C1_NoByteLost ==
  /\ IsPrefix(delivered, accepted)
  /\ Unread(ctx) = SubSeq(accepted, Len(delivered) + 1, Len(accepted))

\* C1 witness: bytes were delivered, the cursor is inside the buffer, the
\* buffer has grown and unread bytes remain.
C1_Witness ==
  /\ delivered # << >>
  /\ ctx.read_position > 0
  /\ ctx.buffer_capacity > FSP_DEFAULT_BUFFER_SIZE
  /\ fsp_buffer_available(ctx) > 1

\* C2: in every reachable state, failed appends included,
\* 0 <= read_position <= data_length <= buffer_capacity.
C2_CursorLengthCapacity ==
  /\ 0 <= ctx.read_position
  /\ ctx.read_position <= ctx.data_length
  /\ ctx.data_length <= ctx.buffer_capacity

\* C2 witness: an append has just failed with out-of-memory on a context
\* that was read from and still holds unread bytes.
C2_Witness ==
  /\ last.op = "append"
  /\ last.ret = -1
  /\ delivered # << >>
  /\ ctx.data_length > 0

C4_LexGate ==
  hpc = "lex" =>
    \/ fsp_buffer_available(ctx) >= MIN_BUFFER_FOR_LEX
    \/ (pos >= input_len /\ ctx.more_chunks_expected = 0)

\* C4 witness: the lexer is about to be invoked while more chunks are
\* expected, the threshold being reached.
C4_Witness ==
  /\ hpc = "lex"
  /\ pos < input_len
  /\ ctx.more_chunks_expected = 1
  /\ fsp_buffer_available(ctx) >= MIN_BUFFER_FOR_LEX

\* C5: the end-of-input token is pushed to the parser only in a state where
\* more_chunks_expected is 0 and the buffer is exhausted, for every
\* input, the empty one included.
C5_EofOnlyWhenExhausted ==
  (hpc = "push_eof" \/ eof_pushed > 0) =>
    /\ ctx.more_chunks_expected = 0
    /\ fsp_buffer_available(ctx) = 0

\* C6: more_chunks_expected never changes from 0 (false) back to 1 (true).
C6_MoreExpectedNeverBack ==
  [][ctx.more_chunks_expected = 0 => ctx'.more_chunks_expected = 0]_vars

\* A step that is a call of fsp_buffer_append failing with out-of-memory.
FailedAppendStep == last'.op = "append" /\ last'.ret = -1

\* C7 (as stated): a failed append leaves read_position, data_length,
\* buffer_capacity and the buffered bytes as they were before the call.
C7_FailedAppendKeepsState ==
  [][FailedAppendStep =>
       /\ ctx'.read_position = ctx.read_position
       /\ ctx'.data_length = ctx.data_length
       /\ ctx'.buffer_capacity = ctx.buffer_capacity
       /\ ctx'.stream_buffer = ctx.stream_buffer]_vars

\* C7 (amended): a failed append reports out-of-memory and appends nothing:
\* buffer_capacity, the unread bytes and their count, more_chunks_expected
\* and the user value are as before the call; the unread bytes have been
\* compacted, so read_position is 0 and data_length is the unread count.
C7_FailedAppendKeepsUnread ==
  [][FailedAppendStep =>
       /\ ctx'.buffer_capacity = ctx.buffer_capacity
       /\ Unread(ctx') = Unread(ctx)
       /\ fsp_buffer_available(ctx') = fsp_buffer_available(ctx)
       /\ ctx'.read_position = 0
       /\ ctx'.data_length = fsp_buffer_available(ctx)
       /\ ctx'.more_chunks_expected = ctx.more_chunks_expected
       /\ ctx'.user_data = ctx.user_data
       /\ accepted' = accepted]_vars

\* C7 witness: an append has failed on a context with bytes read and bytes
\* unread, after an earlier growth.
C7_Witness ==
  /\ last.op = "append"
  /\ last.ret = -1
  /\ last.path = "grow"
  /\ delivered # << >>
  /\ fsp_buffer_available(ctx) > 0
  /\ ctx.buffer_capacity > FSP_DEFAULT_BUFFER_SIZE

\* C8: as long as no read has delivered a byte, the unread count is the sum
\* of the lengths of the successful appends, whatever compaction or growth
\* the appends went through.
C8_AppendAvailable ==
  delivered = << >> => fsp_buffer_available(ctx) = appended

\* C8 witness: several appends, one of them growing the buffer, and no
\* read.
C8_Witness ==
  /\ delivered = << >>
  /\ last.op = "append"
  /\ last.ret = 0
  /\ last.path = "grow"
  /\ 0 < last.n
  /\ last.n < appended

\* C9: a call read(n) returns k = min(available, n), k <= n, and leaves
\* available smaller by exactly k.
C9_ReadMonotone ==
  [][last'.op = "read" =>
       LET k == last'.ret
           n == last'.n
       IN /\ k = Min(fsp_buffer_available(ctx), n)
          /\ k <= n
          /\ fsp_buffer_available(ctx') = fsp_buffer_available(ctx) - k]_vars

\* C9 witness: a read of fewer bytes than were asked for, after a read of
\* fewer bytes than were available.
C9_Witness ==
  /\ last.op = "read"
  /\ 0 < last.ret
  /\ last.ret < last.n
  /\ Len(delivered) > last.ret

\* C10: a successful append of a payload larger than the free capacity
\* (buffer_capacity - data_length) leaves the unread bytes intact and in
\* order ahead of the payload, and adds the payload length to available.
C10_GrowthCorrect ==
  [][(/\ last'.op = "append"
      /\ last'.ret = 0
      /\ last'.n > ctx.buffer_capacity - ctx.data_length) =>
       /\ Unread(ctx') = Unread(ctx) \o Payload(last'.n)
       /\ fsp_buffer_available(ctx') =
            fsp_buffer_available(ctx) + last'.n]_vars

\* C10 witness: an append has grown the buffer with unread bytes in it
\* from before the call.
C10_Witness ==
  /\ last.op = "append"
  /\ last.ret = 0
  /\ last.path = "grow"
  /\ fsp_buffer_available(ctx) > last.n
  /\ delivered # << >>

\* C11: compaction preserves content.  A call of fsp_buffer_compact, from
\* any buffer state, leaves the sequence of unread bytes and the available
\* count as they were, sets read_position to 0 and data_length to the
\* former unread count.
C11_CompactPreserves ==
  [][last'.op = "compact" =>
       /\ Unread(ctx') = Unread(ctx)
       /\ fsp_buffer_available(ctx') = fsp_buffer_available(ctx)
       /\ ctx'.read_position = 0
       /\ ctx'.data_length = ctx.data_length - ctx.read_position
       /\ ctx'.buffer_capacity = ctx.buffer_capacity]_vars

\* A compaction has run on a buffer that had delivered bytes and still
\* holds unread ones.
C11_Witness ==
  /\ last.op = "compact"
  /\ delivered # << >>
  /\ fsp_buffer_available(ctx) > 0
  /\ Unread(ctx) = SubSeq(accepted, Len(delivered) + 1, Len(accepted))

\* C12: compaction is idempotent.  In every buffer state, compacting twice
\* gives exactly the context that compacting once gives (read_position,
\* data_length, buffer_capacity, the buffered bytes, and the rest).
C12_CompactIdempotent ==
  LET once == fsp_buffer_compact(ctx)
      twice == fsp_buffer_compact(once)
  IN /\ twice = once
     /\ Unread(twice) = Unread(once)
     /\ last.op = "compact" => fsp_buffer_compact(ctx) = ctx

\* A compaction has run where it had bytes to move, so that the first
\* application was not the identity.
C12_Witness ==
  /\ last.op = "compact"
  /\ delivered # << >>
  /\ fsp_buffer_available(ctx) > 0
  /\ ctx.read_position = 0
  /\ fsp_buffer_compact(ctx) = ctx

\* C13: capacity never decreases, and it increases only inside an append
\* (fsp_buffer_append, or the append of fsp_parse_chunk) whose payload
\* together with the unread bytes exceeds the current capacity.
C13_CapacityMonotone ==
  [][/\ ctx'.buffer_capacity >= ctx.buffer_capacity
     /\ ctx'.buffer_capacity > ctx.buffer_capacity =>
          /\ last'.op \in {"append", "parse_chunk"}
          /\ fsp_buffer_available(ctx) + last'.n > ctx.buffer_capacity
          /\ ctx'.buffer_capacity >= fsp_buffer_available(ctx) + last'.n]_vars

\* An append has compacted without growing, and the buffer has grown
\* before.
C13_Witness ==
  /\ last.op = "append"
  /\ last.path = "compact"
  /\ last.ret = 0
  /\ ctx.buffer_capacity > FSP_DEFAULT_BUFFER_SIZE

\* C14: the result of a read does not depend on more_chunks_expected.  For
\* the two contexts that agree with the current one on buffer,
\* read_position and data_length and differ in more_chunks_expected, a
\* read of any max_size returns the same count and the same bytes and
\* moves read_position alike; with nothing available it returns 0 and
\* changes nothing in both.
C14_ReadIgnoresMoreExpected ==
  \A max_size \in 0..MaxRead :
    LET c0 == [ctx EXCEPT !.more_chunks_expected = 0]
        c1 == [ctx EXCEPT !.more_chunks_expected = 1]
        r0 == fsp_read_input(c0, FALSE, FALSE, max_size)
        r1 == fsp_read_input(c1, FALSE, FALSE, max_size)
    IN /\ r0.ret = r1.ret
       /\ r0.out = r1.out
       /\ r0.ctx.read_position = r1.ctx.read_position
       /\ r0.ctx.more_chunks_expected = 0
       /\ r1.ctx = [r0.ctx EXCEPT !.more_chunks_expected = 1]
       /\ fsp_buffer_available(ctx) = 0 =>
            /\ r0.ret = 0 /\ r0.ctx = c0
            /\ r1.ret = 0 /\ r1.ctx = c1

\* A read has found the buffer empty after the final chunk was marked
\* (the "true EOF" branch), on a context that had bytes before.
C14_Witness ==
  /\ last.op = "read"
  /\ last.n > 0
  /\ last.ret = 0
  /\ ctx.more_chunks_expected = 0
  /\ fsp_buffer_available(ctx) = 0
  /\ delivered # << >>

\* The run is over with the end-of-input token pushed: every chunk was
\* appended and the buffer is drained.
EofDelivered ==
  /\ hpc = "done"
  /\ eof_pushed = 1
  /\ pos = input_len
  /\ fsp_buffer_available(ctx) = 0

\* The run is over without the end-of-input token: the lexer returned
\* ERROR, or the parser stopped asking for more.
ParserStopped ==
  /\ hpc = "done"
  /\ eof_pushed = 0
  /\ status # 0

\* The run is over because an append reported out of memory.
AppendGaveUp ==
  /\ hpc = "failed"
  /\ last.op = "append"
  /\ last.ret = -1

\* C15 as stated: for every input and every chunk size the host loop
\* eventually is FINISHED, that is: all chunks appended, the final chunk
\* marked, the buffer drained and the parser given its final notification,
\* or the parser finished or aborted.
C15_FinishedAsStated ==
  <>(\/ EofDelivered /\ ctx.more_chunks_expected = 0
     \/ ParserStopped)

\* C15, amended: for every input and every chunk size the host loop
\* eventually stops, in one of three ways: the end-of-input token is pushed
\* with every chunk appended and the buffer drained (and, for a non-empty
\* input, more_chunks_expected cleared); or the lexer returned ERROR or the
\* parser stopped; or an append reported out of memory.
C15_HostTerminates ==
  <>[](\/ EofDelivered /\ (input # << >> => ctx.more_chunks_expected = 0)
       \/ ParserStopped
       \/ AppendGaveUp)

\* A run over an input of several one-byte chunks has ended with the
\* end-of-input token, after going back for more chunks at least once.
C15_Witness ==
  /\ EofDelivered
  /\ chunk_size = 1
  /\ input_len >= 3
  /\ lex_calls >= 2
  /\ ctx.more_chunks_expected = 0

\* C16: every call of append, read, compact and available runs to
\* completion, whatever the context state and the payload length: no call
\* is left that never returns.
C16_CallsComplete == last.ret # Never

\* The part of a context that fsp_buffer_append works on.
BufferOf(c) ==
  <<c.stream_buffer, c.buffer_capacity, c.data_length, c.read_position>>

\* C17: on a valid context fsp_parse_chunk(chunk, length, is_end) changes
\* the buffer exactly as fsp_buffer_append(chunk, length) does: every
\* fsp_parse_chunk step leaves the bytes, capacity, data_length and
\* read_position that fsp_buffer_append leaves for the same payload and
\* the same outcome of realloc, and it leaves user_data alone; when the
\* append succeeds and is_end is true, more_chunks_expected is 0
\* afterwards.
C17_ParseChunkIsAppend ==
  [][last'.op = "parse_chunk" =>
       \E realloc_ok \in BOOLEAN :
         LET a == fsp_buffer_append(ctx, FALSE, FALSE, Payload(last'.n),
                                    last'.n, realloc_ok)
         IN /\ BufferOf(ctx') = BufferOf(a.ctx)
            /\ a.ret = 0 <=> fsp_buffer_available(ctx')
                               = fsp_buffer_available(ctx) + last'.n
            /\ ctx'.user_data = ctx.user_data
            /\ (a.ret = 0 /\ last'.is_end # 0) =>
                 ctx'.more_chunks_expected = 0]_vars

\* A final chunk has been ingested by fsp_parse_chunk along the growth
\* path, on a context that expected more chunks until then.
C17_Witness ==
  /\ last.op = "parse_chunk"
  /\ last.is_end = 1
  /\ last.path = "grow"
  /\ last.ret = FSP_STATUS_OK
  /\ ctx.more_chunks_expected = 0
  /\ Unread(ctx) = SubSeq(accepted, Len(delivered) + 1, Len(accepted))

\* C18: on a valid context fsp_parse_chunk returns FSP_STATUS_NO_MEMORY
\* exactly when its append fails (no byte of a non-empty chunk is taken),
\* FSP_STATUS_NEED_DATA exactly when the append succeeds (available rises
\* by the length) and is_end is false, FSP_STATUS_OK exactly when the
\* append succeeds and is_end is true; FSP_STATUS_NO_MEMORY differs from
\* both other values.
C18_ParseChunkStatus ==
  [][last'.op = "parse_chunk" =>
       LET failed == /\ last'.n > 0
                     /\ fsp_buffer_available(ctx') = fsp_buffer_available(ctx)
           succeeded == fsp_buffer_available(ctx')
                          = fsp_buffer_available(ctx) + last'.n
       IN /\ failed # succeeded
          /\ last'.ret = FSP_STATUS_NO_MEMORY <=> failed
          /\ last'.ret = FSP_STATUS_NEED_DATA <=>
               (succeeded /\ last'.is_end = 0)
          /\ last'.ret = FSP_STATUS_OK <=> (succeeded /\ last'.is_end # 0)
          /\ failed => last'.path = "grow"
          /\ FSP_STATUS_NO_MEMORY
               \notin {FSP_STATUS_OK, FSP_STATUS_NEED_DATA}]_vars

\* fsp_parse_chunk has returned FSP_STATUS_NO_MEMORY for a final chunk
\* whose append could not grow the buffer.
C18_Witness ==
  /\ last.op = "parse_chunk"
  /\ last.ret = FSP_STATUS_NO_MEMORY
  /\ last.is_end = 1
  /\ last.path = "grow"

\* C19: empty input.  On a fresh context, fsp_parse_chunk with a final
\* chunk of zero bytes returns FSP_STATUS_OK and leaves nothing available
\* and more_chunks_expected 0; and the host loop run on the empty input
\* ends without error having recognised no statement: no token reaches the
\* parser before the end-of-input token, which the parser accepts.
C19_EmptyInput ==
  /\ ctx = fsp_create =>
       LET p == fsp_parse_chunk(ctx, FALSE, FALSE, << >>, 0, 1, TRUE)
       IN /\ p.ret = FSP_STATUS_OK
          /\ fsp_buffer_available(p.ctx) = 0
          /\ p.ctx.more_chunks_expected = 0
          /\ BufferOf(p.ctx) = BufferOf(ctx)
  /\ (input = << >> /\ hpc = "done") =>
       /\ status = 0
       /\ pushed = << >>
       /\ eof_pushed = 1
       /\ lex_calls = 0
       /\ fsp_buffer_available(ctx) = 0

\* The host loop has run to its end on the empty input.
C19_Witness ==
  /\ input = << >>
  /\ hpc = "done"
  /\ eof_pushed = 1
  /\ status = 0
  /\ ctx = fsp_create

\* C20: fsp_buffer_append with a zero length, a null data pointer or a
\* null context returns 0 and changes nothing: read_position, data_length,
\* buffer_capacity, the buffered bytes and more_chunks_expected (the whole
\* context) are as before the call.
C20_AppendNoOp ==
  [][(last'.op = "append_null" \/ (last'.op = "append" /\ last'.n = 0)) =>
       /\ last'.ret = 0
       /\ ctx' = ctx]_vars

\* An append with a null data pointer and a length that would not fit has
\* been made on a buffer with unread and delivered bytes.
C20_Witness ==
  /\ last.op = "append_null"
  /\ last.n = MaxChunk
  /\ last.ret = 0
  /\ ctx.read_position > 0
  /\ fsp_buffer_available(ctx) > 0

\* C21: misuse is a silent no-op.  Every entry point called with a null
\* context (append, read, compact, available, set and get of the user
\* value, and fsp_parse_chunk) returns success or zero, never an error
\* status.
C21_NullCtxSilent ==
  last.path = "null_ctx" =>
    /\ last.ret = 0
    /\ last.op = "parse_chunk" => last.ret = FSP_STATUS_OK

\* C22: the only failure of the stream buffer is a failed allocation during
\* growth.  In every state, an append whose payload fits once the unread
\* bytes are compacted (unread + length <= capacity) succeeds even when no
\* memory can be had, and leaves the capacity and the size of the buffer
\* as they were; an append or fsp_parse_chunk that failed was on the
\* growth path; read, compact and available report no failure.
C22_OnlyGrowthFails ==
  /\ \A n \in 0..MaxChunk :
       fsp_buffer_available(ctx) + n <= ctx.buffer_capacity =>
         LET a == fsp_buffer_append(ctx, FALSE, FALSE, Payload(n), n, FALSE)
         IN /\ a.ret = 0
            /\ a.ctx.buffer_capacity = ctx.buffer_capacity
            /\ DOMAIN a.ctx.stream_buffer = DOMAIN ctx.stream_buffer
            /\ fsp_buffer_available(a.ctx) = fsp_buffer_available(ctx) + n
  /\ last.op = "append" => last.ret \in {0, -1}
  /\ (last.op = "append" /\ last.ret # 0) => last.path = "grow"
  /\ (last.op = "parse_chunk" /\ last.ret = FSP_STATUS_NO_MEMORY) =>
       last.path = "grow"
  /\ last.op = "read" => (last.ret >= 0 /\ last.ret <= last.n)
  /\ last.op = "compact" => last.ret = 0
  /\ last.op = "available" => last.ret >= 0

\* An append has filled the buffer to the brim by compacting, without
\* growing it, after bytes were delivered.
C22_Witness ==
  /\ last.op = "append"
  /\ last.path = "compact"
  /\ last.ret = 0
  /\ delivered # << >>
  /\ ctx.data_length = ctx.buffer_capacity

\* C23: the user value.  It is null before any set; fsp_set_user_data
\* stores its argument; fsp_get_user_data returns the stored value, that
\* is the argument of the most recent set; and no append, read, compact,
\* available, get or fsp_parse_chunk call changes it.
C23_UserData ==
  /\ last.op = "create" => ctx.user_data = NULL
  /\ [][/\ last'.op = "set_user_data" => ctx'.user_data = last'.n
        /\ last'.op # "set_user_data" => ctx'.user_data = ctx.user_data
        /\ last'.op = "get_user_data" =>
             /\ last'.ret = ctx.user_data
             /\ last.op = "set_user_data" => last'.ret = last.n]_vars

\* The value set earlier has been read back after the buffer was grown,
\* read and compacted in between.
C23_Witness ==
  /\ last.op = "get_user_data"
  /\ last.ret = SomePointer
  /\ ctx.buffer_capacity > FSP_DEFAULT_BUFFER_SIZE
  /\ delivered # << >>
  /\ ctx.read_position = 0

\* The context that the call recorded as `call` leaves when it is made on
\* context c with no other context around.
Alone(c, call) ==
  CASE call.op = "append" ->
         fsp_buffer_append(c, FALSE, FALSE, TwoPayload(call.on, call.n),
                           call.n, call.ret = 0).ctx
    [] call.op = "read" -> fsp_read_input(c, FALSE, FALSE, call.n).ctx
    [] call.op = "compact" -> fsp_buffer_compact(c)
    [] call.op = "set_user_data" -> fsp_set_user_data(c, call.n)
    [] call.op = "parse_chunk" ->
         fsp_parse_chunk(c, FALSE, FALSE, TwoPayload(call.on, call.n), call.n,
                         call.is_end, call.ret # FSP_STATUS_NO_MEMORY).ctx
    [] OTHER -> c

C25_CreatedEmpty ==
  last.op = "create" =>
    /\ ctx.read_position = 0
    /\ ctx.data_length = 0
    /\ fsp_buffer_available(ctx) = 0
    /\ Unread(ctx) = << >>
    /\ ctx.more_chunks_expected = 1
    /\ ctx.buffer_capacity = FSP_DEFAULT_BUFFER_SIZE
    /\ DOMAIN ctx.stream_buffer = 0..(FSP_DEFAULT_BUFFER_SIZE - 1)
    /\ ctx.user_data = NULL

\* The context just created, nothing appended or delivered yet.
C25_Witness ==
  /\ last.op = "create"
  /\ ctx = fsp_create
  /\ appended = 0
  /\ delivered = << >>

\* C26: fsp_buffer_available returns data_length - read_position and has
\* no side effect.  Every call of it, from whatever state, returns that
\* difference (the number of unread bytes) and leaves every field of the
\* context, and the bytes accepted and delivered, as they were.
C26_AvailablePure ==
  [][last'.op = "available" =>
       /\ last'.ret = ctx.data_length - ctx.read_position
       /\ last'.ret = Len(Unread(ctx))
       /\ ctx' = ctx
       /\ accepted' = accepted
       /\ delivered' = delivered]_vars

\* fsp_buffer_available has just returned 1 for a context that holds more
\* bytes than that, the others already read.
C26_Witness ==
  /\ last.op = "available"
  /\ last.ret = 1
  /\ ctx.read_position > 0
  /\ ctx.data_length = ctx.read_position + 1

\* An append (of fsp_buffer_append or inside fsp_parse_chunk) that had to
\* grow the buffer, the unread bytes and the payload together exceeding
\* the capacity, and succeeded.
GrewStep ==
  /\ last'.op \in {"append", "parse_chunk"}
  /\ fsp_buffer_available(ctx) + last'.n > ctx.buffer_capacity
  /\ fsp_buffer_available(ctx') = fsp_buffer_available(ctx) + last'.n

\* C27: growth is by doubling.  An append that must grow leaves the
\* capacity at the old capacity times 2^k, k >= 1 the smallest for which
\* that is at least the unread count plus the payload length; no other
\* step changes the capacity by another factor, so the capacity is always
\* FSP_DEFAULT_BUFFER_SIZE times a power of two; and appending twice the
\* default size to a fresh context leaves that many bytes available in a
\* buffer of twice the default capacity.
C27_GrowthDoubles ==
  /\ [](\E j \in 0..MaxStream :
          ctx.buffer_capacity = FSP_DEFAULT_BUFFER_SIZE * (2 ^ j))
  /\ [][/\ GrewStep =>
            \E k \in 1..MaxStream :
              /\ ctx'.buffer_capacity = ctx.buffer_capacity * (2 ^ k)
              /\ ctx'.buffer_capacity >=
                   fsp_buffer_available(ctx) + last'.n
              /\ k > 1 => ctx.buffer_capacity * (2 ^ (k - 1)) <
                            fsp_buffer_available(ctx) + last'.n
        /\ ctx'.buffer_capacity # ctx.buffer_capacity => GrewStep
        /\ (/\ ctx = fsp_create
            /\ last'.op = "append"
            /\ last'.n = 2 * FSP_DEFAULT_BUFFER_SIZE
            /\ last'.ret = 0) =>
             /\ fsp_buffer_available(ctx') = 2 * FSP_DEFAULT_BUFFER_SIZE
             /\ ctx'.buffer_capacity = 2 * FSP_DEFAULT_BUFFER_SIZE]_vars

\* One append has taken the buffer from the default capacity to four
\* times that: one doubling would not have held the payload.
C27_Witness ==
  /\ last.op = "append"
  /\ last.ret = 0
  /\ last.path = "grow"
  /\ last.n = Len(accepted)
  /\ last.n > 2 * FSP_DEFAULT_BUFFER_SIZE
  /\ ctx.buffer_capacity = 4 * FSP_DEFAULT_BUFFER_SIZE

\* C28: compact before grow.  An append whose payload does not fit after
\* data_length but does fit once the read bytes are reclaimed succeeds
\* without reallocating: it moves the unread bytes to offset 0, leaves
\* read_position 0 and data_length at the unread count plus the payload
\* length, keeps the capacity and the buffer, and does the same whether
\* or not a realloc would have succeeded.
C28_CompactBeforeGrow ==
  [][(/\ last'.op = "append"
      /\ ctx.data_length + last'.n > ctx.buffer_capacity
      /\ fsp_buffer_available(ctx) + last'.n <= ctx.buffer_capacity) =>
       LET unread == fsp_buffer_available(ctx)
       IN /\ last'.ret = 0
          /\ ctx'.read_position = 0
          /\ ctx'.data_length = unread + last'.n
          /\ ctx'.buffer_capacity = ctx.buffer_capacity
          /\ DOMAIN ctx'.stream_buffer = DOMAIN ctx.stream_buffer
          /\ \A k \in 0..(unread - 1) :
               ctx'.stream_buffer[k] =
                 ctx.stream_buffer[ctx.read_position + k]
          /\ Unread(ctx') = Unread(ctx) \o Payload(last'.n)
          /\ \A realloc_ok \in BOOLEAN :
               fsp_buffer_append(ctx, FALSE, FALSE, Payload(last'.n),
                                 last'.n, realloc_ok)
                 = [ctx |-> ctx', ret |-> 0]]_vars

\* An append has just made room by compaction alone: unread bytes from
\* before the call now start at offset 0, in a buffer still of the default
\* capacity and filled to the end.
C28_Witness ==
  /\ last.op = "append"
  /\ last.path = "compact"
  /\ ctx.read_position = 0
  /\ ctx.buffer_capacity = FSP_DEFAULT_BUFFER_SIZE
  /\ ctx.data_length = ctx.buffer_capacity
  /\ ctx.data_length > last.n
  /\ delivered # << >>

\* C29: an append that fits in the free tail touches nothing else.  When
\* data_length plus the payload length is within the capacity, the append
\* succeeds, leaves read_position, the capacity and every byte below the
\* old data_length as they were, writes the payload at the old
\* data_length and adds its length to data_length; hence an append moves
\* the cursor (compacts) only when data_length plus the payload length
\* exceeds the capacity.
C29_FitAppendFrame ==
  [][/\ (/\ last'.op = "append"
         /\ ctx.data_length + last'.n <= ctx.buffer_capacity) =>
          /\ last'.ret = 0
          /\ ctx'.read_position = ctx.read_position
          /\ ctx'.buffer_capacity = ctx.buffer_capacity
          /\ ctx'.data_length = ctx.data_length + last'.n
          /\ DOMAIN ctx'.stream_buffer = DOMAIN ctx.stream_buffer
          /\ \A k \in DOMAIN ctx.stream_buffer :
               ctx'.stream_buffer[k] =
                 IF k \in ctx.data_length..(ctx.data_length + last'.n - 1)
                 THEN Payload(last'.n)[k - ctx.data_length + 1]
                 ELSE ctx.stream_buffer[k]
     /\ (/\ last'.op \in {"append", "parse_chunk"}
         /\ ctx'.read_position # ctx.read_position) =>
          ctx.data_length + last'.n > ctx.buffer_capacity]_vars

\* An append has just fitted in the free tail of a grown buffer whose
\* first bytes were read before the call: the cursor is still past them.
C29_Witness ==
  /\ last.op = "append"
  /\ last.path = "fit"
  /\ last.n > 0
  /\ ctx.read_position > 0
  /\ ctx.data_length > ctx.read_position + last.n
  /\ ctx.buffer_capacity > FSP_DEFAULT_BUFFER_SIZE

\* C30: after an append that fails for lack of memory the context is
\* still valid and usable.  The unread bytes, their count and the capacity
\* are as before the call and read_position <= data_length <=
\* buffer_capacity; a read of any size returns the bytes it would have
\* returned before the call, a compaction keeps the unread bytes, and the
\* same append tried again with realloc succeeding returns 0 and leaves
\* the unread bytes followed by the payload, in a buffer of the capacity
\* the first call would have reached had it succeeded.
C30_UsableAfterNoMemory ==
  [][FailedAppendStep =>
       LET n == last'.n
           first == fsp_buffer_append(ctx, FALSE, FALSE, Payload(n), n, TRUE)
           retry == fsp_buffer_append(ctx', FALSE, FALSE, Payload(n), n, TRUE)
       IN /\ accepted' = accepted
          /\ fsp_buffer_available(ctx') = fsp_buffer_available(ctx)
          /\ Unread(ctx') = Unread(ctx)
          /\ ctx'.buffer_capacity = ctx.buffer_capacity
          /\ ctx'.read_position <= ctx'.data_length
          /\ ctx'.data_length <= ctx'.buffer_capacity
          /\ DOMAIN ctx'.stream_buffer = 0..(ctx'.buffer_capacity - 1)
          /\ \A max_size \in 0..MaxRead :
               LET before == fsp_read_input(ctx, FALSE, FALSE, max_size)
                   after == fsp_read_input(ctx', FALSE, FALSE, max_size)
               IN /\ after.ret = before.ret
                  /\ after.out = before.out
                  /\ Unread(after.ctx) = Unread(before.ctx)
          /\ Unread(fsp_buffer_compact(ctx')) = Unread(ctx)
          /\ retry.ret = 0
          /\ first.ret = 0
          /\ Unread(retry.ctx) = Unread(ctx) \o Payload(n)
          /\ Unread(retry.ctx) = Unread(first.ctx)
          /\ retry.ctx.buffer_capacity = first.ctx.buffer_capacity]_vars

\* An append has just failed on a context of the default capacity that
\* holds unread bytes, after others were read.
C30_Witness ==
  /\ last.op = "append"
  /\ last.ret = -1
  /\ ctx.buffer_capacity = FSP_DEFAULT_BUFFER_SIZE
  /\ ctx.read_position = 0
  /\ fsp_buffer_available(ctx) > 0
  /\ Len(delivered) > 0
  /\ Len(accepted) = Len(delivered) + fsp_buffer_available(ctx)

\* C31: fsp_parse_chunk updates more_chunks_expected only after its append
\* has succeeded.  A call that returns FSP_STATUS_NO_MEMORY leaves the
\* flag (and the user value) as it was, whatever is_end was; a call that
\* returns another status has set the flag to the negation of is_end.
C31_FlagAfterAppend ==
  [][last'.op = "parse_chunk" =>
       IF last'.ret = FSP_STATUS_NO_MEMORY
       THEN /\ ctx'.more_chunks_expected = ctx.more_chunks_expected
            /\ ctx'.user_data = ctx.user_data
            /\ accepted' = accepted
       ELSE ctx'.more_chunks_expected = (IF last'.is_end # 0 THEN 0 ELSE 1)
    ]_vars

\* A final chunk has been refused for lack of memory and the context,
\* with bytes still unread, goes on expecting chunks.
C31_Witness ==
  /\ last.op = "parse_chunk"
  /\ last.ret = FSP_STATUS_NO_MEMORY
  /\ last.is_end = 1
  /\ last.n > 0
  /\ ctx.more_chunks_expected = 1
  /\ fsp_buffer_available(ctx) > 0

\* The lexer has just reported "no token yet" while more chunks are
\* expected.
Starved ==
  /\ hpc = "token"
  /\ token.kind = "0"
  /\ ctx.more_chunks_expected = 1

\* C32: starvation is never read as end of input.  When the lexer reports
\* "no token yet" while more chunks are expected, input remains to be
\* appended and the end-of-input token has not been pushed; from there the
\* host neither pushes the end-of-input token nor invokes the lexer again
\* before it has appended a further chunk; and it does go on to call
\* fsp_buffer_append with the next chunk.
C32_StarvationNotEof ==
  /\ [](Starved =>
          /\ is_eof = 0
          /\ pos < input_len
          /\ fsp_buffer_available(ctx) = 0
          /\ eof_pushed = 0)
  /\ \A k \in 0..MaxInput :
       [](Starved /\ appended = k =>
            []((hpc \in {"push_eof", "lex"} \/ eof_pushed > 0) =>
                 appended > k))
  /\ \A k \in 0..MaxInput :
       (Starved /\ appended = k) ~>
         (last.op = "append" /\ (appended > k \/ hpc = "failed"))

\* The lexer has reported "no token yet" holding the first letters of a
\* word whose end has not been appended yet.
C32_Witness ==
  /\ Starved
  /\ Len(yy_buf) >= 2
  /\ LetterRun(yy_buf) = Len(yy_buf)
  /\ pos < input_len

\* C33 as stated: a token the lexer produces in phase 2 is pushed to the
\* parser and the host stays in phase 2; it leaves phase 2 for phase 1
\* (more chunks being expected) only when the lexer has reported "no token
\* yet".
C33_DrainUntilNoToken ==
  [][/\ (hpc = "token" /\ token.kind \notin {"0", "ERROR"}) =>
          /\ pushed' = Append(pushed, token)
          /\ hpc' = "drain"
     /\ (hpc \in {"drain", "token"} /\ hpc' = "after" /\ is_eof = 0) =>
          token.kind = "0"]_vars

\* C33, amended: a token other than ERROR that the lexer produces in phase
\* 2 is pushed to the parser, nothing else changing, and the host goes
\* back to the head of phase 2; an ERROR token is not pushed and ends the
\* run with status 1.  From the head of phase 2 the lexer is invoked again
\* when the unread bytes reach MIN_BUFFER_FOR_LEX or no more chunks are
\* expected; otherwise the host leaves phase 2 for phase 1 without
\* invoking the lexer, with input left to append.
C33_TokenForwarded ==
  [][/\ (hpc = "token" /\ token.kind \notin {"0", "ERROR"}) =>
          /\ pushed' = Append(pushed, token)
          /\ hpc' = "drain"
          /\ ctx' = ctx
          /\ eof_pushed' = eof_pushed
     /\ (hpc = "token" /\ token.kind = "ERROR") =>
          /\ pushed' = pushed
          /\ status' = 1
          /\ hpc' = "done"
     /\ (hpc = "drain" /\ token.kind # "0") =>
          IF \/ fsp_buffer_available(ctx) >= MIN_BUFFER_FOR_LEX
             \/ ctx.more_chunks_expected = 0
          THEN hpc' = "lex"
          ELSE /\ hpc' = "after"
               /\ pos < input_len
               /\ is_eof = 0
               /\ lex_calls' = lex_calls]_vars

\* The host has left phase 2 right after pushing a token: fewer unread
\* bytes than MIN_BUFFER_FOR_LEX are left and more chunks are expected.
C33_Witness ==
  /\ hpc = "after"
  /\ token.kind \in {"WORD", "DELIM"}
  /\ pushed # << >>
  /\ pushed[Len(pushed)] = token
  /\ is_eof = 0
  /\ ctx.more_chunks_expected = 1
  /\ fsp_buffer_available(ctx) < MIN_BUFFER_FOR_LEX

\* C34: the end of the run is final.  In every run of the host loop the
\* end-of-input token is pushed to the parser at most once; once it has
\* been pushed, or the run has ended on an ERROR token or a parser that
\* stopped, the host is at its label done, where no statement of the loop
\* can be executed: no chunk is appended, the lexer is not invoked and
\* nothing is pushed any more.
C34_FinishedTerminal ==
  /\ [](eof_pushed <= 1)
  /\ []((eof_pushed > 0 \/ ParserStopped) => hpc = "done")
  /\ [](hpc = "done" => ~ENABLED HostNext)
  /\ [][(hpc = "done" \/ eof_pushed > 0) =>
          /\ appended' = appended
          /\ lex_calls' = lex_calls
          /\ eof_pushed' = eof_pushed
          /\ pushed' = pushed
          /\ ctx' = ctx]_vars

\* The run has ended with the end-of-input token pushed once, after
\* several lexer calls and pushed tokens, the parser aborting on it.
C34_Witness ==
  /\ hpc = "done"
  /\ eof_pushed = 1
  /\ status = 1
  /\ lex_calls >= 3
  /\ Len(pushed) >= 2
  /\ appended = input_len

\* C35: the host appends every input byte once, in input order, and
\* signals the end of input only after the last one.  At every point of a
\* run the bytes appended so far are exactly the first pos bytes of the
\* input (none twice, none skipped, none out of order), and the buffer
\* holds those of them the lexer has not pulled yet; when
\* more_chunks_expected is 0 the whole input has been appended, and no
\* append follows; and a run that ends with the end-of-input token pushed
\* has appended the whole input.
C35_AppendedOnceInOrder ==
  /\ [](/\ accepted = SubSeq(input, 1, pos)
        /\ delivered \o Unread(ctx) = accepted
        /\ appended = pos
        /\ pos <= input_len)
  /\ [](ctx.more_chunks_expected = 0 =>
          /\ pos = input_len
          /\ accepted = input)
  /\ [](eof_pushed > 0 => accepted = input)
  /\ [][ctx.more_chunks_expected = 0 =>
          /\ accepted' = accepted
          /\ appended' = appended
          /\ pos' = pos
          /\ last' = last
          /\ ctx'.more_chunks_expected = 0]_vars

\* The end of input has just been signalled after an input of several
\* chunks, part of it already pulled by the lexer.
C35_Witness ==
  /\ hpc = "drain"
  /\ ctx.more_chunks_expected = 0
  /\ accepted = input
  /\ input_len > 2 * chunk_size
  /\ delivered # << >>
  /\ fsp_buffer_available(ctx) > 0
  /\ eof_pushed = 0

\* C36: buffering is bounded under the two-phase loop.  With threshold
\* MIN_BUFFER_FOR_LEX and chunks of at most chunk_size bytes the unread
\* count never exceeds MIN_BUFFER_FOR_LEX - 1 + chunk_size; and when that
\* bound is within the initial capacity, the capacity stays the initial
\* one throughout the run, no append reaches realloc and none fails,
\* whatever the input.
C36_BoundedBuffering ==
  /\ [](fsp_buffer_available(ctx)
          <= MIN_BUFFER_FOR_LEX - 1 + chunk_size)
  /\ [](MIN_BUFFER_FOR_LEX - 1 + chunk_size <= FSP_DEFAULT_BUFFER_SIZE =>
          /\ ctx.buffer_capacity = FSP_DEFAULT_BUFFER_SIZE
          /\ last.path \in {"none", "fit", "compact"}
          /\ last.ret = 0
          /\ hpc # "failed")

\* An input longer than the initial capacity has been appended in chunks
\* small enough for the bound; the latest append made room by compaction
\* and the buffer still has its initial capacity.
C36_Witness ==
  /\ MIN_BUFFER_FOR_LEX - 1 + chunk_size <= FSP_DEFAULT_BUFFER_SIZE
  /\ last.op = "append"
  /\ last.path = "compact"
  /\ pos > FSP_DEFAULT_BUFFER_SIZE
  /\ ctx.buffer_capacity = FSP_DEFAULT_BUFFER_SIZE

\* C37: the value fsp_read_input returns is the number of bytes read.  For
\* every max_size and every unread count, those above INT_MAX included,
\* the value returned is not negative and is the number of bytes by which
\* read_position has advanced.
C37_ReadCountExact ==
  [][last'.op = "read" =>
       /\ last'.ret >= 0
       /\ last'.ret = ctx'.read_position - ctx.read_position]_vars

\* C38: an append that returns success has not wrapped.  Whenever
\* fsp_buffer_append returns 0, lengths for which data_length + length
\* wraps around size_t included, the new data_length is the sum, as
\* integers, of the payload length and the former data_length (or the
\* former unread count, after a compaction), and is at most
\* buffer_capacity: nothing was written past the buffer.
C38_NoWrapOnSuccess ==
  [][(last'.op = "append" /\ last'.ret = 0) =>
       /\ ctx'.data_length \in {ctx.data_length + last'.n,
                                fsp_buffer_available(ctx) + last'.n}
       /\ ctx'.data_length <= ctx'.buffer_capacity
       /\ ctx.data_length + last'.n <= ctx'.buffer_capacity
            \/ fsp_buffer_available(ctx) + last'.n
                 <= ctx'.buffer_capacity]_vars

\* C39: what read and compact leave alone.  fsp_read_input changes
\* read_position and no other field of the context, the buffered bytes
\* included; fsp_buffer_compact changes read_position, data_length and
\* the position of the unread bytes, which stay the same bytes in the
\* same order.  Neither changes buffer_capacity, the size of the buffer
\* (no allocation), more_chunks_expected or the user value, and neither
\* reports a failure: the read returns a count of 0 or more.
C39_ReadCompactFrame ==
  [][/\ last'.op = "read" =>
          /\ ctx' = [ctx EXCEPT !.read_position = ctx'.read_position]
          /\ ctx'.read_position >= ctx.read_position
          /\ last'.ret >= 0
          /\ accepted' = accepted
     /\ last'.op = "compact" =>
          /\ ctx'.buffer_capacity = ctx.buffer_capacity
          /\ DOMAIN ctx'.stream_buffer = DOMAIN ctx.stream_buffer
          /\ ctx'.more_chunks_expected = ctx.more_chunks_expected
          /\ ctx'.user_data = ctx.user_data
          /\ Unread(ctx') = Unread(ctx)
          /\ ctx'.read_position = 0
          /\ ctx'.data_length = fsp_buffer_available(ctx)
          /\ last'.ret = 0
          /\ accepted' = accepted
          /\ delivered' = delivered]_vars

\* A compaction has just moved unread bytes to the front of a grown
\* buffer in a context whose flag is cleared and whose user value is set.
C39_Witness ==
  /\ last.op = "compact"
  /\ ctx.buffer_capacity > FSP_DEFAULT_BUFFER_SIZE
  /\ ctx.more_chunks_expected = 0
  /\ ctx.user_data = SomePointer
  /\ fsp_buffer_available(ctx) > 0
  /\ Len(delivered) > 0
  /\ ctx.stream_buffer[0] = Len(delivered) + 1

\* The single-phase loop is about to invoke the lexer with fewer unread
\* bytes than MIN_BUFFER_FOR_LEX and more chunks to come, and the lexer's
\* refill hook will read 0 bytes before a token is complete.
SingleStarvedLex ==
  /\ hpc = "s_lex"
  /\ fsp_buffer_available(ctx) < MIN_BUFFER_FOR_LEX
  /\ is_eof = 0
  /\ pos < input_len
  /\ ctx.more_chunks_expected = 1
  /\ Lex(ctx, yy_buf, << >>).token = NoToken

\* C40: the single-phase hazard.  The two-phase loop never invokes the
\* lexer with fewer unread bytes than MIN_BUFFER_FOR_LEX while chunks are
\* still to come; the single-phase loop, which invokes the lexer after
\* every append, does (the witness), and every time it does and the lexer
\* comes back without a token, the lexer's last read returned 0 with input
\* still to be appended.
C40_SinglePhaseHazard ==
  /\ [](hpc = "lex" =>
          ~(/\ fsp_buffer_available(ctx) < MIN_BUFFER_FOR_LEX
            /\ (is_eof = 0 \/ pos < input_len
                 \/ ctx.more_chunks_expected = 1)))
  /\ [][SingleStarvedLex =>
          /\ hpc' = "s_token"
          /\ token' = NoToken
          /\ fsp_read_input(ctx', FALSE, FALSE, YY_READ_BUF_SIZE).ret = 0
          /\ pos' < input_len
          /\ eof_pushed' = 0]_vars

\* The hazard itself: the single-phase loop at the lexer call with one
\* letter unread, below the threshold, the rest of the word not yet
\* appended.
C40_Witness ==
  /\ SingleStarvedLex
  /\ fsp_buffer_available(ctx) > 0
  /\ LetterRun(Unread(ctx)) = Len(Unread(ctx))
  /\ input[pos + 1] = LETTER

====
